---- MODULE Spec2Model ----
(***************************************************************************)
(* Model of cc_service_strongswan.py: the StrongSwan service plugin that   *)
(* reads its settings (prepare) and then configures PKI, addressing,       *)
(* configuration files, networking and the ip(6)tables firewall            *)
(* (configure).                                                            *)
(*                                                                         *)
(* Addresses are kept at their real width.  As 2^32 and 2^128 do not fit   *)
(* the checker's integers, an address is a big-endian sequence of limbs:   *)
(* four 8-bit octets for IPv4, eight 16-bit groups for IPv6.               *)
(***************************************************************************)
EXTENDS Integers, Sequences, FiniteSets, TLC

VARIABLES
    env,      \* the environment the container is started with
    self,     \* the fields of the StrongSwan object
    phase,    \* "init", "prepared", "configuring", "done", "failed"
    step,     \* index of the next statement of configure()
    error,    \* the exception that ended the run ("" when none)
    tables,   \* netfilter state: family -> "table/chain" -> sequence of rules
    sys       \* other side effects: PKI, files, mounts, interfaces, sysctl

vars == <<env, self, phase, step, error, tables, sys>>

-----------------------------------------------------------------------------
(* Address arithmetic (netaddr's IPAddress / IPNetwork, as the code uses it) *)

\* 2^n for 0 <= n <= 16 (a limb has at most 16 bits)
PowersOfTwo ==
    <<1, 2, 4, 8, 16, 32, 64, 128, 256, 512, 1024, 2048, 4096, 8192, 16384, 32768, 65536>>

Pow2(n) == PowersOfTwo[n + 1]

LimbBits(version) == IF version = 4 THEN 8 ELSE 16

NumLimbs(version) == IF version = 4 THEN 4 ELSE 8

Width(version) == LimbBits(version) * NumLimbs(version)

\* IPNetwork(...): keeps the address as written (host bits included) and the prefix
IPNetwork(version, ip, prefixlen) ==
    [version |-> version, ip |-> ip, prefixlen |-> prefixlen]

\* number of bits of limb i that belong to the network part of a /prefixlen
KeepBits(version, prefixlen, i) ==
    LET k == prefixlen - (i - 1) * LimbBits(version)
    IN  IF k < 0 THEN 0 ELSE IF k > LimbBits(version) THEN LimbBits(version) ELSE k

\* address with the host bits of a /prefixlen cleared
MaskAddr(version, ip, prefixlen) ==
    [i \in 1..NumLimbs(version) |->
        ip[i] - (ip[i] % Pow2(LimbBits(version) - KeepBits(version, prefixlen, i)))]

\* IPNetwork.first : the network address
NetFirst(net) == MaskAddr(net.version, net.ip, net.prefixlen)

\* IPNetwork.last : the address with all host bits set
NetLast(net) ==
    [i \in 1..NumLimbs(net.version) |->
        NetFirst(net)[i]
          + Pow2(LimbBits(net.version) - KeepBits(net.version, net.prefixlen, i)) - 1]

\* addr + k for a small k >= 0, with carry into the higher limbs
RECURSIVE AddAt(_, _, _, _)
AddAt(addr, bits, i, k) ==
    IF i = 0 \/ k = 0 THEN addr
    ELSE LET s == addr[i] + k
         IN  AddAt([addr EXCEPT ![i] = s % Pow2(bits)], bits, i - 1, s \div Pow2(bits))

AddInt(version, addr, k) == AddAt(addr, LimbBits(version), NumLimbs(version), k)

\* index < IPNetwork.size, for an index below 2^16 (size = 2^(width - prefixlen))
IndexBelowSize(net, index) ==
    LET hostbits == Width(net.version) - net.prefixlen
    IN  hostbits >= LimbBits(6) \/ index < Pow2(hostbits)

\* IPNetwork.__getitem__ for the indices the code uses (1, 2 and -1):
\* first + index when 0 <= index < size, last for -1, IndexError otherwise
GetItem(net, index) ==
    IF index = -1 THEN [ok |-> TRUE, addr |-> NetLast(net)]
    ELSE IF index >= 0 /\ IndexBelowSize(net, index)
         THEN [ok |-> TRUE, addr |-> AddInt(net.version, NetFirst(net), index)]
         ELSE [ok |-> FALSE, addr |-> <<>>]

\* next(net.subnet(prefixlen)) : the first sub-block, based at net.first
FirstSubnet(net, prefixlen) == IPNetwork(net.version, NetFirst(net), prefixlen)

\* a < b on addresses of one family (big-endian, limb by limb)
RECURSIVE AddrLtFrom(_, _, _)
AddrLtFrom(a, b, i) ==
    IF i > Len(a) THEN FALSE
    ELSE IF a[i] # b[i] THEN a[i] < b[i]
    ELSE AddrLtFrom(a, b, i + 1)

AddrLt(a, b) == AddrLtFrom(a, b, 1)

AddrLe(a, b) == a = b \/ AddrLt(a, b)

\* address inside network (what "-s net" / "-d net" and "addr in net" test)
InNetwork(addr, net) ==
    /\ Len(addr) = NumLimbs(net.version)
    /\ \A i \in 1..Len(addr) :
          LET m == Pow2(LimbBits(net.version) - KeepBits(net.version, net.prefixlen, i))
          IN  addr[i] - (addr[i] % m) = net.ip[i] - (net.ip[i] % m)

\* network inside network
NetInNetwork(inner, outer) ==
    /\ inner.version = outer.version
    /\ InNetwork(NetFirst(inner), outer)
    /\ InNetwork(NetLast(inner), outer)

\* the text is a well-formed network of the family (else AddrFormatError)
WellFormed(net) ==
    /\ Len(net.ip) = NumLimbs(net.version)
    /\ \A i \in 1..Len(net.ip) : net.ip[i] >= 0 /\ net.ip[i] < Pow2(LimbBits(net.version))
    /\ net.prefixlen >= 0 /\ net.prefixlen <= Width(net.version)

-----------------------------------------------------------------------------
(* netaddr's classification predicates, as prepare() calls them on the     *)
(* IPv6 client subnet                                                      *)

IPV6_MULTICAST == IPNetwork(6, <<\hff00, 0, 0, 0, 0, 0, 0, 0>>, 8)

IPV6_LINK_LOCAL == IPNetwork(6, <<\hfe80, 0, 0, 0, 0, 0, 0, 0>>, 10)

IPV6_PRIVATE ==
    { IPNetwork(6, <<\hfc00, 0, 0, 0, 0, 0, 0, 0>>, 7),
      IPNetwork(6, <<\hfec0, 0, 0, 0, 0, 0, 0, 0>>, 10) }

is_multicast(net) == NetInNetwork(net, IPV6_MULTICAST)

is_unicast(net) == ~is_multicast(net)

is_private(net) ==
    \/ \E cidr \in IPV6_PRIVATE : NetInNetwork(net, cidr)
    \/ NetInNetwork(net, IPV6_LINK_LOCAL)

-----------------------------------------------------------------------------
(* The settings a run can be started with *)

\* CLIENT_SUBNET_IPV4 values; the first is the default "10.0.0.0/24"
SubnetPool4 ==
    << IPNetwork(4, <<10, 0, 0, 0>>, 24),          \* 10.0.0.0/24
       IPNetwork(4, <<192, 168, 77, 9>>, 30),      \* 192.168.77.9/30 (host bits set)
       IPNetwork(4, <<10, 1, 2, 254>>, 31),        \* 10.1.2.254/31
       IPNetwork(4, <<10, 1, 2, 3>>, 32),          \* 10.1.2.3/32
       IPNetwork(4, <<300, 0, 0, 0>>, 24),         \* 300.0.0.0/24 (malformed)
       IPNetwork(4, <<172, 16, 0, 0>>, 12),        \* 172.16.0.0/12
       IPNetwork(4, <<10, 255, 254, 0>>, 23) >>    \* 10.255.254.0/23

\* CLIENT_SUBNET_IPV6 values; the first is the default "fd00:DEAD:BEEF:AFFE::/64"
SubnetPool6 ==
    << IPNetwork(6, <<\hfd00, \hdead, \hbeef, \haffe, 0, 0, 0, 0>>, 64),
       IPNetwork(6, <<\h2a01, \h04f8, \h0c17, \h002b, 0, 0, 0, 0>>, 64),
       IPNetwork(6, <<\hfd12, \h3456, \h789a, 1, 0, 0, \hffff, \hfffd>>, 126),
       IPNetwork(6, <<\hfd00, 0, 0, 0, 0, 0, 0, 2>>, 127),
       IPNetwork(6, <<\hfd00, 0, 0, 0, 0, 0, 0, 1>>, 128),
       IPNetwork(6, <<\hff02, 0, 0, 0, 0, 0, 0, 0>>, 16),
       IPNetwork(6, <<\hfd00, 0, 0, 0, 0, 0, 0, 0>>, 129),
       IPNetwork(6, <<\h2a01, \h04f8, \h0c17, \h002b, 7, 8, 0, 0>>, 96),
       IPNetwork(6, <<\hfd00, \hdead, \hbeef, \haffe, 1, 2, 3, 4>>, 95) >>

\* how many entries of each pool the runs draw from
NumSubnets4 == 5

NumSubnets6 == 7

Min(a, b) == IF a < b THEN a ELSE b

Subnets4 == { SubnetPool4[i] : i \in 1..Min(NumSubnets4, Len(SubnetPool4)) }

Subnets6 == { SubnetPool6[i] : i \in 1..Min(NumSubnets6, Len(SubnetPool6)) }

\* A text setting is a sequence of pieces: a piece is "," or " " or a non-empty run of
\* other characters.  A setting is set to a text or not set at all.
Setting(text) == [set |-> TRUE, text |-> text]

Unset == [set |-> FALSE, text |-> << >>]

\* os.environ lookup with a default
get_env_setting_string(e, name, default) ==
    IF e[name].set THEN e[name].text ELSE default

\* the settings that are not DNS settings
BaseSettings(subnets4, subnets6, flags, mounts) ==
    [ ALLOW_INTERCLIENT_COMMUNICATION : flags,
      PROTECT_CLIENTS_FROM_INTERNET   : flags,
      CLIENT_SUBNET_IPV4              : subnets4,
      CLIENT_SUBNET_IPV6              : subnets6,
      USE_INTERNAL_PKI                : flags,
      proc_sys                        : mounts ]

\* the DNS settings: USE_DOCKER_DNS, the variable DNS_SERVERS and a variable whose
\* name is "DNS SERVERS"
DnsSettings(docker, servers, spaced) ==
    { ("USE_DOCKER_DNS" :> d) @@ ("DNS_SERVERS" :> v) @@ ("DNS SERVERS" :> w) :
        d \in docker, v \in servers, w \in spaced }

\* every subnet and flag, with the DNS settings left at their defaults
Environments ==
    { b @@ d : b \in BaseSettings(Subnets4, Subnets6, BOOLEAN, {"ro", "rw"}),
               d \in DnsSettings({TRUE}, {Unset}, {Unset}) }

\* longest DNS_SERVERS text
MaxDnsLen == 3

RECURSIVE TextsOfLen(_, _)
TextsOfLen(pieces, n) ==
    IF n = 0 THEN { << >> }
    ELSE { Append(t, c) : t \in TextsOfLen(pieces, n - 1), c \in pieces }

\* DNS_SERVERS values: every text of up to MaxDnsLen pieces out of an address, a comma
\* and a blank
DnsTexts == UNION { TextsOfLen({"9.9.9.9", ",", " "}, n) : n \in 0..MaxDnsLen }

\* the default subnets and flags and a read-only /proc/sys, with every DNS setting
DnsEnvironments ==
    { b @@ d : b \in BaseSettings({SubnetPool4[1]}, {SubnetPool6[1]}, {TRUE}, {"ro"}),
               d \in DnsSettings(BOOLEAN,
                                 {Unset} \cup { Setting(t) : t \in DnsTexts },
                                 {Unset, Setting(<<"1.1.1.1">>)}) }

\* str.strip() for blanks
RECURSIVE Strip(_)
Strip(t) ==
    IF t = << >> THEN t
    ELSE IF Head(t) = " " THEN Strip(Tail(t))
    ELSE IF t[Len(t)] = " " THEN Strip(SubSeq(t, 1, Len(t) - 1))
    ELSE t

\* str.split(","): the texts between the commas, the empty ones included
RECURSIVE SplitFrom(_, _, _)
SplitFrom(t, i, cur) ==
    IF i > Len(t) THEN << cur >>
    ELSE IF t[i] = "," THEN << cur >> \o SplitFrom(t, i + 1, << >>)
    ELSE SplitFrom(t, i + 1, Append(cur, t[i]))

Split(t) == SplitFrom(t, 1, << >>)

\* [ s.strip() for s in text.split(",") ]
SplitAndStrip(t) == [ i \in 1..Len(Split(t)) |-> Strip(Split(t)[i]) ]

DOCKER_DNS == << "127.0.0.11" >>

DEFAULT_DNS_SERVERS ==
    << "8.8.8.8", ",", " ", "8.8.4.4", ",", " ",
       "2001:4860:4860::8888", ",", " ", "2001:4860:4860::8844" >>

\* self._dns_servers
DnsServers(e) ==
    SplitAndStrip(IF e.USE_DOCKER_DNS THEN DOCKER_DNS
                  ELSE get_env_setting_string(e, "DNS SERVERS", DEFAULT_DNS_SERVERS))

-----------------------------------------------------------------------------
(* The calls configure() makes, in program order.  A call is a record; the *)
(* text str(network) is carried as the network it denotes.                 *)

iptables_add(chain, target, args, comment) ==
    [op |-> "iptables_add", fam |-> 4, chain |-> chain, target |-> target,
     args |-> args, comment |-> comment]

ip6tables_add(chain, target, args, comment) ==
    [op |-> "iptables_add", fam |-> 6, chain |-> chain, target |-> target,
     args |-> args, comment |-> comment]

iptables_run(args) == [op |-> "iptables_run", fam |-> 4, args |-> args]

ip6tables_run(args) == [op |-> "iptables_run", fam |-> 6, args |-> args]

run(argv) == [op |-> "run", argv |-> argv]

LOOPBACK_V4 == IPNetwork(4, <<127, 0, 0, 0>>, 8)      \* "127.0.0.0/8"

LOOPBACK_V6 == IPNetwork(6, <<0, 0, 0, 0, 0, 0, 0, 1>>, 128)   \* "::1/128"

\* variant: the third rule goes to INPUT again instead of OUTPUT
Calls_RH0_NoOutput ==
    << ip6tables_add("INPUT",   "DROP", <<"-m", "rt", "--rt-type", "0">>, "RH0 Exploit Protection"),
       ip6tables_add("FORWARD", "DROP", <<"-m", "rt", "--rt-type", "0">>, "RH0 Exploit Protection"),
       ip6tables_add("INPUT",   "DROP", <<"-m", "rt", "--rt-type", "0">>, "RH0 Exploit Protection") >>

\* filter all packets that have RH0 headers
Calls_RH0 ==
    << ip6tables_add("INPUT",   "DROP", <<"-m", "rt", "--rt-type", "0">>, "RH0 Exploit Protection"),
       ip6tables_add("FORWARD", "DROP", <<"-m", "rt", "--rt-type", "0">>, "RH0 Exploit Protection"),
       ip6tables_add("OUTPUT",  "DROP", <<"-m", "rt", "--rt-type", "0">>, "RH0 Exploit Protection") >>

\* variant: the client-address rule of the IPv6 FORWARD chain tests for an IPSec policy
Calls_AntiSpoofing_WrongPolicy(s) ==
    << iptables_add( "INPUT",   "DROP", <<"!", "-i", "lo", "-s", LOOPBACK_V4>>, "Anti-Spoofing"),
       iptables_add( "FORWARD", "DROP", <<"!", "-i", "lo", "-s", LOOPBACK_V4>>, "Anti-Spoofing"),
       ip6tables_add("INPUT",   "DROP", <<"!", "-i", "lo", "-s", LOOPBACK_V6>>, "Anti-Spoofing"),
       ip6tables_add("FORWARD", "DROP", <<"!", "-i", "lo", "-s", LOOPBACK_V6>>, "Anti-Spoofing"),
       iptables_add( "INPUT",   "DROP", <<"-s", s.client_subnet_ipv4, "-m", "policy", "--dir", "in", "--pol", "none">>, "Anti-Spoofing"),
       iptables_add( "FORWARD", "DROP", <<"-s", s.client_subnet_ipv4, "-m", "policy", "--dir", "in", "--pol", "none">>, "Anti-Spoofing"),
       ip6tables_add("INPUT",   "DROP", <<"-s", s.client_subnet_ipv6, "-m", "policy", "--dir", "in", "--pol", "none">>, "Anti-Spoofing"),
       ip6tables_add("FORWARD", "DROP", <<"-s", s.client_subnet_ipv6, "-m", "policy", "--dir", "in", "--pol", "ipsec">>, "Anti-Spoofing") >>

\* protect against spoofing attacks
Calls_AntiSpoofing(s) ==
    << iptables_add( "INPUT",   "DROP", <<"!", "-i", "lo", "-s", LOOPBACK_V4>>, "Anti-Spoofing"),
       iptables_add( "FORWARD", "DROP", <<"!", "-i", "lo", "-s", LOOPBACK_V4>>, "Anti-Spoofing"),
       ip6tables_add("INPUT",   "DROP", <<"!", "-i", "lo", "-s", LOOPBACK_V6>>, "Anti-Spoofing"),
       ip6tables_add("FORWARD", "DROP", <<"!", "-i", "lo", "-s", LOOPBACK_V6>>, "Anti-Spoofing"),
       iptables_add( "INPUT",   "DROP", <<"-s", s.client_subnet_ipv4, "-m", "policy", "--dir", "in", "--pol", "none">>, "Anti-Spoofing"),
       iptables_add( "FORWARD", "DROP", <<"-s", s.client_subnet_ipv4, "-m", "policy", "--dir", "in", "--pol", "none">>, "Anti-Spoofing"),
       ip6tables_add("INPUT",   "DROP", <<"-s", s.client_subnet_ipv6, "-m", "policy", "--dir", "in", "--pol", "none">>, "Anti-Spoofing"),
       ip6tables_add("FORWARD", "DROP", <<"-s", s.client_subnet_ipv6, "-m", "policy", "--dir", "in", "--pol", "none">>, "Anti-Spoofing") >>

\* allow localhost to access everything
Calls_Loopback ==
    << iptables_add( "INPUT", "ACCEPT", <<"-i", "lo">>, ""),
       ip6tables_add("INPUT", "ACCEPT", <<"-i", "lo">>, "") >>

\* variant: the NAT traversal port is missing from the IPv6 rules
Calls_IPSec_NoNatT ==
    << iptables_add( "INPUT", "ACCEPT", <<"-p", "udp", "--dport", "500">>, ""),
       iptables_add( "INPUT", "ACCEPT", <<"-p", "udp", "--dport", "4500">>, ""),
       iptables_add( "INPUT", "ACCEPT", <<"-p", "esp">>, ""),
       ip6tables_add("INPUT", "ACCEPT", <<"-p", "udp", "--dport", "500">>, ""),
       ip6tables_add("INPUT", "ACCEPT", <<"-p", "esp">>, "") >>

\* allow IPSec related traffic
Calls_IPSec ==
    << iptables_add( "INPUT", "ACCEPT", <<"-p", "udp", "--dport", "500">>, ""),
       iptables_add( "INPUT", "ACCEPT", <<"-p", "udp", "--dport", "4500">>, ""),
       iptables_add( "INPUT", "ACCEPT", <<"-p", "esp">>, ""),
       ip6tables_add("INPUT", "ACCEPT", <<"-p", "udp", "--dport", "500">>, ""),
       ip6tables_add("INPUT", "ACCEPT", <<"-p", "udp", "--dport", "4500">>, ""),
       ip6tables_add("INPUT", "ACCEPT", <<"-p", "esp">>, "") >>

\* allow packets that belong to already existing connections
Calls_Conntrack ==
    << iptables_add( "INPUT",   "DROP",   <<"-m", "conntrack", "--ctstate", "INVALID">>, ""),
       iptables_add( "INPUT",   "ACCEPT", <<"-m", "conntrack", "--ctstate", "ESTABLISHED,RELATED">>, ""),
       iptables_add( "FORWARD", "DROP",   <<"-m", "conntrack", "--ctstate", "INVALID">>, ""),
       iptables_add( "FORWARD", "ACCEPT", <<"-m", "conntrack", "--ctstate", "ESTABLISHED,RELATED">>, ""),
       ip6tables_add("INPUT",   "DROP",   <<"-m", "conntrack", "--ctstate", "INVALID">>, ""),
       ip6tables_add("INPUT",   "ACCEPT", <<"-m", "conntrack", "--ctstate", "ESTABLISHED,RELATED">>, ""),
       ip6tables_add("FORWARD", "DROP",   <<"-m", "conntrack", "--ctstate", "INVALID">>, ""),
       ip6tables_add("FORWARD", "ACCEPT", <<"-m", "conntrack", "--ctstate", "ESTABLISHED,RELATED">>, "") >>

\* variant: the DNS rules do not test the source address
Calls_DNS_AnySource(s) ==
    << iptables_add( "INPUT", "ACCEPT", <<"-p", "udp", "--dport", "53", "-m", "policy", "--dir", "in", "--pol", "ipsec">>, ""),
       iptables_add( "INPUT", "ACCEPT", <<"-p", "tcp", "--dport", "53", "-m", "policy", "--dir", "in", "--pol", "ipsec">>, ""),
       ip6tables_add("INPUT", "ACCEPT", <<"-p", "udp", "--dport", "53", "-m", "policy", "--dir", "in", "--pol", "ipsec">>, ""),
       ip6tables_add("INPUT", "ACCEPT", <<"-p", "tcp", "--dport", "53", "-m", "policy", "--dir", "in", "--pol", "ipsec">>, "") >>

\* allow VPN clients to access the DNS server
Calls_DNS(s) ==
    << iptables_add( "INPUT", "ACCEPT", <<"-p", "udp", "-s", s.client_subnet_ipv4, "--dport", "53", "-m", "policy", "--dir", "in", "--pol", "ipsec">>, ""),
       iptables_add( "INPUT", "ACCEPT", <<"-p", "tcp", "-s", s.client_subnet_ipv4, "--dport", "53", "-m", "policy", "--dir", "in", "--pol", "ipsec">>, ""),
       ip6tables_add("INPUT", "ACCEPT", <<"-p", "udp", "-s", s.client_subnet_ipv6, "--dport", "53", "-m", "policy", "--dir", "in", "--pol", "ipsec">>, ""),
       ip6tables_add("INPUT", "ACCEPT", <<"-p", "tcp", "-s", s.client_subnet_ipv6, "--dport", "53", "-m", "policy", "--dir", "in", "--pol", "ipsec">>, "") >>

\* variant: the IPv6 rule is missing
Calls_InterClient_NoIPv6(s) ==
    IF ~s.allow_interclient_communication
    THEN << iptables_add( "FORWARD", "DROP", <<"-s", s.client_subnet_ipv4, "-d", s.client_subnet_ipv4>>, "") >>
    ELSE << >>

\* block packets between VPN clients (if requested)
Calls_InterClient(s) ==
    IF ~s.allow_interclient_communication
    THEN << iptables_add( "FORWARD", "DROP", <<"-s", s.client_subnet_ipv4, "-d", s.client_subnet_ipv4>>, ""),
            ip6tables_add("FORWARD", "DROP", <<"-s", s.client_subnet_ipv6, "-d", s.client_subnet_ipv6>>, "") >>
    ELSE << >>

\* variant: FORWARD jumps to AllowICMP_F before the chain has its final DROP
Calls_ICMPv4_JumpBeforeDrop ==
    << iptables_run(<<"-N", "AllowICMP_I">>),
       iptables_add("AllowICMP_I", "ACCEPT", <<"-p", "icmp", "--icmp-type", "0">>, ""),
       iptables_add("AllowICMP_I", "ACCEPT", <<"-p", "icmp", "--icmp-type", "3">>, ""),
       iptables_add("AllowICMP_I", "ACCEPT", <<"-p", "icmp", "--icmp-type", "8", "-m", "limit", "--limit", "5/sec", "--limit-burst", "20">>, ""),
       iptables_add("AllowICMP_I", "ACCEPT", <<"-p", "icmp", "--icmp-type", "11">>, ""),
       iptables_add("AllowICMP_I", "ACCEPT", <<"-p", "icmp", "--icmp-type", "12">>, ""),
       iptables_add("AllowICMP_I", "ACCEPT", <<"-p", "icmp", "--icmp-type", "30">>, ""),
       iptables_add("AllowICMP_I", "DROP", << >>, ""),
       iptables_add("INPUT", "AllowICMP_I", <<"-p", "icmp">>, ""),
       iptables_run(<<"-N", "AllowICMP_F">>),
       iptables_add("AllowICMP_F", "ACCEPT", <<"-p", "icmp", "--icmp-type", "0">>, ""),
       iptables_add("AllowICMP_F", "ACCEPT", <<"-p", "icmp", "--icmp-type", "3">>, ""),
       iptables_add("AllowICMP_F", "ACCEPT", <<"-p", "icmp", "--icmp-type", "8", "-m", "limit", "--limit", "5/sec", "--limit-burst", "20">>, ""),
       iptables_add("AllowICMP_F", "ACCEPT", <<"-p", "icmp", "--icmp-type", "11">>, ""),
       iptables_add("AllowICMP_F", "ACCEPT", <<"-p", "icmp", "--icmp-type", "12">>, ""),
       iptables_add("AllowICMP_F", "ACCEPT", <<"-p", "icmp", "--icmp-type", "30">>, ""),
       iptables_add("FORWARD", "AllowICMP_F", <<"-p", "icmp">>, ""),
       iptables_add("AllowICMP_F", "DROP", << >>, "") >>

\* allow ICMP packets (IPv4)
Calls_ICMPv4 ==
    << iptables_run(<<"-N", "AllowICMP_I">>),
       iptables_add("AllowICMP_I", "ACCEPT", <<"-p", "icmp", "--icmp-type", "0">>, ""),
       iptables_add("AllowICMP_I", "ACCEPT", <<"-p", "icmp", "--icmp-type", "3">>, ""),
       iptables_add("AllowICMP_I", "ACCEPT", <<"-p", "icmp", "--icmp-type", "8", "-m", "limit", "--limit", "5/sec", "--limit-burst", "20">>, ""),
       iptables_add("AllowICMP_I", "ACCEPT", <<"-p", "icmp", "--icmp-type", "11">>, ""),
       iptables_add("AllowICMP_I", "ACCEPT", <<"-p", "icmp", "--icmp-type", "12">>, ""),
       iptables_add("AllowICMP_I", "ACCEPT", <<"-p", "icmp", "--icmp-type", "30">>, ""),
       iptables_add("AllowICMP_I", "DROP", << >>, ""),
       iptables_add("INPUT", "AllowICMP_I", <<"-p", "icmp">>, ""),
       iptables_run(<<"-N", "AllowICMP_F">>),
       iptables_add("AllowICMP_F", "ACCEPT", <<"-p", "icmp", "--icmp-type", "0">>, ""),
       iptables_add("AllowICMP_F", "ACCEPT", <<"-p", "icmp", "--icmp-type", "3">>, ""),
       iptables_add("AllowICMP_F", "ACCEPT", <<"-p", "icmp", "--icmp-type", "8", "-m", "limit", "--limit", "5/sec", "--limit-burst", "20">>, ""),
       iptables_add("AllowICMP_F", "ACCEPT", <<"-p", "icmp", "--icmp-type", "11">>, ""),
       iptables_add("AllowICMP_F", "ACCEPT", <<"-p", "icmp", "--icmp-type", "12">>, ""),
       iptables_add("AllowICMP_F", "ACCEPT", <<"-p", "icmp", "--icmp-type", "30">>, ""),
       iptables_add("AllowICMP_F", "DROP", << >>, ""),
       iptables_add("FORWARD", "AllowICMP_F", <<"-p", "icmp">>, "") >>

\* variant: neighbor solicitation is forwarded as well
Calls_ICMPv6_ForwardDiscovery ==
    << ip6tables_run(<<"-N", "AllowICMP_I">>),
       ip6tables_add("AllowICMP_I", "ACCEPT", <<"-p", "icmpv6", "--icmpv6-type", "1">>, ""),
       ip6tables_add("AllowICMP_I", "ACCEPT", <<"-p", "icmpv6", "--icmpv6-type", "2">>, ""),
       ip6tables_add("AllowICMP_I", "ACCEPT", <<"-p", "icmpv6", "--icmpv6-type", "3">>, ""),
       ip6tables_add("AllowICMP_I", "ACCEPT", <<"-p", "icmpv6", "--icmpv6-type", "4">>, ""),
       ip6tables_add("AllowICMP_I", "ACCEPT", <<"-p", "icmpv6", "--icmpv6-type", "128", "-m", "limit", "--limit", "5/sec", "--limit-burst", "10">>, ""),
       ip6tables_add("AllowICMP_I", "ACCEPT", <<"-p", "icmpv6", "--icmpv6-type", "129">>, ""),
       ip6tables_add("AllowICMP_I", "ACCEPT", <<"-p", "icmpv6", "--icmpv6-type", "130">>, ""),
       ip6tables_add("AllowICMP_I", "ACCEPT", <<"-p", "icmpv6", "--icmpv6-type", "131">>, ""),
       ip6tables_add("AllowICMP_I", "ACCEPT", <<"-p", "icmpv6", "--icmpv6-type", "132">>, ""),
       ip6tables_add("AllowICMP_I", "ACCEPT", <<"-p", "icmpv6", "--icmpv6-type", "133">>, ""),
       ip6tables_add("AllowICMP_I", "ACCEPT", <<"-p", "icmpv6", "--icmpv6-type", "134">>, ""),
       ip6tables_add("AllowICMP_I", "ACCEPT", <<"-p", "icmpv6", "--icmpv6-type", "135">>, ""),
       ip6tables_add("AllowICMP_I", "ACCEPT", <<"-p", "icmpv6", "--icmpv6-type", "136">>, ""),
       ip6tables_add("AllowICMP_I", "ACCEPT", <<"-p", "icmpv6", "--icmpv6-type", "151">>, ""),
       ip6tables_add("AllowICMP_I", "ACCEPT", <<"-p", "icmpv6", "--icmpv6-type", "152">>, ""),
       ip6tables_add("AllowICMP_I", "ACCEPT", <<"-p", "icmpv6", "--icmpv6-type", "153">>, ""),
       ip6tables_add("AllowICMP_I", "DROP", << >>, ""),
       ip6tables_add("INPUT", "AllowICMP_I", <<"-p", "icmpv6">>, ""),
       ip6tables_run(<<"-N", "AllowICMP_F">>),
       ip6tables_add("AllowICMP_F", "ACCEPT", <<"-p", "icmpv6", "--icmpv6-type", "1">>, ""),
       ip6tables_add("AllowICMP_F", "ACCEPT", <<"-p", "icmpv6", "--icmpv6-type", "2">>, ""),
       ip6tables_add("AllowICMP_F", "ACCEPT", <<"-p", "icmpv6", "--icmpv6-type", "3">>, ""),
       ip6tables_add("AllowICMP_F", "ACCEPT", <<"-p", "icmpv6", "--icmpv6-type", "4">>, ""),
       ip6tables_add("AllowICMP_F", "ACCEPT", <<"-p", "icmpv6", "--icmpv6-type", "128", "-m", "limit", "--limit", "5/sec", "--limit-burst", "10">>, ""),
       ip6tables_add("AllowICMP_F", "ACCEPT", <<"-p", "icmpv6", "--icmpv6-type", "129">>, ""),
       ip6tables_add("AllowICMP_F", "ACCEPT", <<"-p", "icmpv6", "--icmpv6-type", "130">>, ""),
       ip6tables_add("AllowICMP_F", "ACCEPT", <<"-p", "icmpv6", "--icmpv6-type", "131">>, ""),
       ip6tables_add("AllowICMP_F", "ACCEPT", <<"-p", "icmpv6", "--icmpv6-type", "132">>, ""),
       ip6tables_add("AllowICMP_F", "ACCEPT", <<"-p", "icmpv6", "--icmpv6-type", "135">>, ""),
       ip6tables_add("AllowICMP_F", "DROP", << >>, ""),
       ip6tables_add("FORWARD", "AllowICMP_F", <<"-p", "icmpv6">>, "") >>

\* allow ICMP packets (IPv6)
Calls_ICMPv6 ==
    << ip6tables_run(<<"-N", "AllowICMP_I">>),
       ip6tables_add("AllowICMP_I", "ACCEPT", <<"-p", "icmpv6", "--icmpv6-type", "1">>, ""),
       ip6tables_add("AllowICMP_I", "ACCEPT", <<"-p", "icmpv6", "--icmpv6-type", "2">>, ""),
       ip6tables_add("AllowICMP_I", "ACCEPT", <<"-p", "icmpv6", "--icmpv6-type", "3">>, ""),
       ip6tables_add("AllowICMP_I", "ACCEPT", <<"-p", "icmpv6", "--icmpv6-type", "4">>, ""),
       ip6tables_add("AllowICMP_I", "ACCEPT", <<"-p", "icmpv6", "--icmpv6-type", "128", "-m", "limit", "--limit", "5/sec", "--limit-burst", "10">>, ""),
       ip6tables_add("AllowICMP_I", "ACCEPT", <<"-p", "icmpv6", "--icmpv6-type", "129">>, ""),
       ip6tables_add("AllowICMP_I", "ACCEPT", <<"-p", "icmpv6", "--icmpv6-type", "130">>, ""),
       ip6tables_add("AllowICMP_I", "ACCEPT", <<"-p", "icmpv6", "--icmpv6-type", "131">>, ""),
       ip6tables_add("AllowICMP_I", "ACCEPT", <<"-p", "icmpv6", "--icmpv6-type", "132">>, ""),
       ip6tables_add("AllowICMP_I", "ACCEPT", <<"-p", "icmpv6", "--icmpv6-type", "133">>, ""),
       ip6tables_add("AllowICMP_I", "ACCEPT", <<"-p", "icmpv6", "--icmpv6-type", "134">>, ""),
       ip6tables_add("AllowICMP_I", "ACCEPT", <<"-p", "icmpv6", "--icmpv6-type", "135">>, ""),
       ip6tables_add("AllowICMP_I", "ACCEPT", <<"-p", "icmpv6", "--icmpv6-type", "136">>, ""),
       ip6tables_add("AllowICMP_I", "ACCEPT", <<"-p", "icmpv6", "--icmpv6-type", "151">>, ""),
       ip6tables_add("AllowICMP_I", "ACCEPT", <<"-p", "icmpv6", "--icmpv6-type", "152">>, ""),
       ip6tables_add("AllowICMP_I", "ACCEPT", <<"-p", "icmpv6", "--icmpv6-type", "153">>, ""),
       ip6tables_add("AllowICMP_I", "DROP", << >>, ""),
       ip6tables_add("INPUT", "AllowICMP_I", <<"-p", "icmpv6">>, ""),
       ip6tables_run(<<"-N", "AllowICMP_F">>),
       ip6tables_add("AllowICMP_F", "ACCEPT", <<"-p", "icmpv6", "--icmpv6-type", "1">>, ""),
       ip6tables_add("AllowICMP_F", "ACCEPT", <<"-p", "icmpv6", "--icmpv6-type", "2">>, ""),
       ip6tables_add("AllowICMP_F", "ACCEPT", <<"-p", "icmpv6", "--icmpv6-type", "3">>, ""),
       ip6tables_add("AllowICMP_F", "ACCEPT", <<"-p", "icmpv6", "--icmpv6-type", "4">>, ""),
       ip6tables_add("AllowICMP_F", "ACCEPT", <<"-p", "icmpv6", "--icmpv6-type", "128", "-m", "limit", "--limit", "5/sec", "--limit-burst", "10">>, ""),
       ip6tables_add("AllowICMP_F", "ACCEPT", <<"-p", "icmpv6", "--icmpv6-type", "129">>, ""),
       ip6tables_add("AllowICMP_F", "ACCEPT", <<"-p", "icmpv6", "--icmpv6-type", "130">>, ""),
       ip6tables_add("AllowICMP_F", "ACCEPT", <<"-p", "icmpv6", "--icmpv6-type", "131">>, ""),
       ip6tables_add("AllowICMP_F", "ACCEPT", <<"-p", "icmpv6", "--icmpv6-type", "132">>, ""),
       ip6tables_add("AllowICMP_F", "DROP", << >>, ""),
       ip6tables_add("FORWARD", "AllowICMP_F", <<"-p", "icmpv6">>, "") >>

\* variant: the rules are emitted only when the internal PKI is in use
Calls_NewFromClients_ByPki(s) ==
    IF s.use_internal_pki
    THEN << iptables_add("FORWARD", "ACCEPT",
                <<"-s", s.client_subnet_ipv4,
                  "-m", "conntrack", "--ctstate", "NEW",
                  "-m", "policy", "--dir", "in", "--pol", "ipsec">>, ""),
            ip6tables_add("FORWARD", "ACCEPT",
                <<"-s", s.client_subnet_ipv6,
                  "-m", "conntrack", "--ctstate", "NEW",
                  "-m", "policy", "--dir", "in", "--pol", "ipsec">>, "") >>
    ELSE << >>

\* variant: without protection from the internet, the rules for the clients' own
\* connections do not ask for IPSec either
Calls_NewFromClients_ByProtection(s) ==
    IF s.protect_clients_from_internet
    THEN << iptables_add("FORWARD", "ACCEPT",
                <<"-s", s.client_subnet_ipv4,
                  "-m", "conntrack", "--ctstate", "NEW",
                  "-m", "policy", "--dir", "in", "--pol", "ipsec">>, ""),
            ip6tables_add("FORWARD", "ACCEPT",
                <<"-s", s.client_subnet_ipv6,
                  "-m", "conntrack", "--ctstate", "NEW",
                  "-m", "policy", "--dir", "in", "--pol", "ipsec">>, "") >>
    ELSE << iptables_add("FORWARD", "ACCEPT",
                <<"-s", s.client_subnet_ipv4,
                  "-m", "conntrack", "--ctstate", "NEW">>, ""),
            ip6tables_add("FORWARD", "ACCEPT",
                <<"-s", s.client_subnet_ipv6,
                  "-m", "conntrack", "--ctstate", "NEW">>, "") >>

\* allow VPN clients to initiate new connections
Calls_NewFromClients(s) ==
    << iptables_add("FORWARD", "ACCEPT",
           <<"-s", s.client_subnet_ipv4,
             "-m", "conntrack", "--ctstate", "NEW",
             "-m", "policy", "--dir", "in", "--pol", "ipsec">>, ""),
       ip6tables_add("FORWARD", "ACCEPT",
           <<"-s", s.client_subnet_ipv6,
             "-m", "conntrack", "--ctstate", "NEW",
             "-m", "policy", "--dir", "in", "--pol", "ipsec">>, "") >>

\* variant: the test of the protection flag is inverted
Calls_NewFromInternet_Inverted(s) ==
    IF s.protect_clients_from_internet
    THEN << iptables_add("FORWARD", "ACCEPT",
                <<"-d", s.client_subnet_ipv4,
                  "-m", "conntrack", "--ctstate", "NEW">>, ""),
            ip6tables_add("FORWARD", "ACCEPT",
                <<"-d", s.client_subnet_ipv6,
                  "-m", "conntrack", "--ctstate", "NEW">>, "") >>
    ELSE << >>

\* allow new connections from the internet to VPN clients, if protection is disabled
Calls_NewFromInternet(s) ==
    IF ~s.protect_clients_from_internet
    THEN << iptables_add("FORWARD", "ACCEPT",
                <<"-d", s.client_subnet_ipv4,
                  "-m", "conntrack", "--ctstate", "NEW">>, ""),
            ip6tables_add("FORWARD", "ACCEPT",
                <<"-d", s.client_subnet_ipv6,
                  "-m", "conntrack", "--ctstate", "NEW">>, "") >>
    ELSE << >>

\* drop everything else
Calls_DropAll ==
    << iptables_add( "INPUT",   "DROP", << >>, ""),
       iptables_add( "FORWARD", "DROP", << >>, ""),
       ip6tables_add("INPUT",   "DROP", << >>, ""),
       ip6tables_add("FORWARD", "DROP", << >>, "") >>

\* variant: the IPv6 rule sets the IPv4 value
Calls_Mangle_SameValue(s) ==
    << iptables_run(<<"-t", "mangle",
                      "-A", "FORWARD",
                      "-p", "tcp", "--tcp-flags", "SYN,RST", "SYN",
                      "-s", s.client_subnet_ipv4,
                      "-m", "policy", "--dir", "in", "--pol", "ipsec",
                      "-m", "tcpmss", "--mss", "1361:1500",
                      "-j", "TCPMSS", "--set-mss", "1360">>),
       ip6tables_run(<<"-t", "mangle",
                       "-A", "FORWARD",
                       "-p", "tcp", "--tcp-flags", "SYN,RST", "SYN",
                       "-s", s.client_subnet_ipv6,
                       "-m", "policy", "--dir", "in", "--pol", "ipsec",
                       "-m", "tcpmss", "--mss", "1341:1500",
                       "-j", "TCPMSS", "--set-mss", "1360">>) >>

\* packet mangling: MSS clamping
Calls_Mangle(s) ==
    << iptables_run(<<"-t", "mangle",
                      "-A", "FORWARD",
                      "-p", "tcp", "--tcp-flags", "SYN,RST", "SYN",
                      "-s", s.client_subnet_ipv4,
                      "-m", "policy", "--dir", "in", "--pol", "ipsec",
                      "-m", "tcpmss", "--mss", "1361:1500",
                      "-j", "TCPMSS", "--set-mss", "1360">>),
       ip6tables_run(<<"-t", "mangle",
                       "-A", "FORWARD",
                       "-p", "tcp", "--tcp-flags", "SYN,RST", "SYN",
                       "-s", s.client_subnet_ipv6,
                       "-m", "policy", "--dir", "in", "--pol", "ipsec",
                       "-m", "tcpmss", "--mss", "1341:1500",
                       "-j", "TCPMSS", "--set-mss", "1340">>) >>

\* variant: the MASQUERADE rule comes first
Calls_Masquerade4_Swapped(s) ==
    << iptables_add("POSTROUTING", "MASQUERADE",
           <<"-t", "nat",
             "-s", s.client_subnet_ipv4>>, ""),
       iptables_add("POSTROUTING", "ACCEPT",
           <<"-t", "nat",
             "-s", s.client_subnet_ipv4,
             "-m", "policy", "--dir", "out", "--pol", "ipsec">>, "") >>

\* masquerading, IPv4
Calls_Masquerade4(s) ==
    << iptables_add("POSTROUTING", "ACCEPT",
           <<"-t", "nat",
             "-s", s.client_subnet_ipv4,
             "-m", "policy", "--dir", "out", "--pol", "ipsec">>, ""),
       iptables_add("POSTROUTING", "MASQUERADE",
           <<"-t", "nat",
             "-s", s.client_subnet_ipv4>>, "") >>

\* variant: IPv6 masquerading whatever the class of the subnet
Calls_Masquerade6_Always(s) ==
    << ip6tables_add("POSTROUTING", "ACCEPT",
           <<"-t", "nat",
             "-s", s.client_subnet_ipv6,
             "-m", "policy", "--dir", "out", "--pol", "ipsec">>, ""),
       ip6tables_add("POSTROUTING", "MASQUERADE",
           <<"-t", "nat",
             "-s", s.client_subnet_ipv6>>, "") >>

\* masquerading, IPv6: only for a site-local client subnet
Calls_Masquerade6(s) ==
    IF s.client_subnet_ipv6_is_site_local
    THEN << ip6tables_add("POSTROUTING", "ACCEPT",
                <<"-t", "nat",
                  "-s", s.client_subnet_ipv6,
                  "-m", "policy", "--dir", "out", "--pol", "ipsec">>, ""),
            ip6tables_add("POSTROUTING", "MASQUERADE",
                <<"-t", "nat",
                  "-s", s.client_subnet_ipv6>>, "") >>
    ELSE << >>

\* variant: the conntrack rules are installed before the IPSec rules
FirewallCalls_ConntrackBeforeIPSec(s) ==
    Calls_RH0 \o Calls_AntiSpoofing(s) \o Calls_Loopback \o Calls_Conntrack
      \o Calls_IPSec \o Calls_DNS(s) \o Calls_InterClient(s)
      \o Calls_ICMPv4 \o Calls_ICMPv6
      \o Calls_NewFromClients(s) \o Calls_NewFromInternet(s) \o Calls_DropAll
      \o Calls_Mangle(s) \o Calls_Masquerade4(s) \o Calls_Masquerade6(s)

\* variant: the default deny is installed before the new-connection rules
FirewallCalls_DenyBeforeNew(s) ==
    Calls_RH0 \o Calls_AntiSpoofing(s) \o Calls_Loopback \o Calls_IPSec
      \o Calls_Conntrack \o Calls_DNS(s) \o Calls_InterClient(s)
      \o Calls_ICMPv4 \o Calls_ICMPv6
      \o Calls_DropAll \o Calls_NewFromClients(s) \o Calls_NewFromInternet(s)
      \o Calls_Mangle(s) \o Calls_Masquerade4(s) \o Calls_Masquerade6(s)

\* the firewall part of configure(), in program order
FirewallCalls(s) ==
    Calls_RH0 \o Calls_AntiSpoofing(s) \o Calls_Loopback \o Calls_IPSec
      \o Calls_Conntrack \o Calls_DNS(s) \o Calls_InterClient(s)
      \o Calls_ICMPv4 \o Calls_ICMPv6
      \o Calls_NewFromClients(s) \o Calls_NewFromInternet(s) \o Calls_DropAll
      \o Calls_Mangle(s) \o Calls_Masquerade4(s) \o Calls_Masquerade6(s)

\* configuration files, as ("template", "path") pairs in the order they are generated
NAMED_CONF_OPTIONS == [op |-> "render", template |-> "/etc/bind/named.conf.options.mako", path |-> "/etc/bind/named.conf.options"]

IPSEC_CONF == [op |-> "render", template |-> "/etc/ipsec.conf.mako", path |-> "/etc/ipsec.conf"]

IPSEC_SECRETS == [op |-> "render", template |-> "/etc/ipsec.secrets.mako", path |-> "/etc/ipsec.secrets"]

STRONGSWAN_CONF == [op |-> "render", template |-> "/etc/strongswan.conf.mako", path |-> "/etc/strongswan.conf"]

NDPPD_CONF == [op |-> "render", template |-> "/etc/ndppd.conf.mako", path |-> "/etc/ndppd.conf"]

\* str(address) + "/" + str(prefixlen), carried as the pair it denotes
AddrWithPrefix(addr, prefixlen) == [addr |-> addr, prefixlen |-> prefixlen]

\* configure networking: dummy device, forwarding and the other sysctl settings
NetworkCalls(s) ==
    << run(<<"ip", "link", "add", "type", "dummy">>),
       run(<<"ip", "addr", "add", AddrWithPrefix(s.own_ip_in_client_subnet_ipv4, s.client_subnet_ipv4.prefixlen), "dev", "dummy0">>),
       run(<<"ip", "addr", "add", AddrWithPrefix(s.own_ip_in_client_subnet_ipv6, s.client_subnet_ipv6.prefixlen), "dev", "dummy0">>),
       run(<<"ip", "link", "set", "up", "dummy0">>),
       run(<<"ip", "route", "add", s.own_ip_in_client_subnet_ipv4, "dev", "dummy0">>),
       run(<<"ip", "route", "add", s.own_ip_in_client_subnet_ipv6, "dev", "dummy0">>),
       run(<<"sysctl", "-w", "net.ipv4.ip_forward=1">>),
       run(<<"sysctl", "-w", "net.ipv6.conf.default.forwarding=1">>),
       run(<<"sysctl", "-w", "net.ipv6.conf.all.forwarding=1">>),
       run(<<"sysctl", "-w", "net.ipv6.conf.eth0.accept_ra=2">>),
       run(<<"sysctl", "-w", "net.ipv4.conf.all.accept_redirects=0">>),
       run(<<"sysctl", "-w", "net.ipv6.conf.all.accept_redirects=0">>),
       run(<<"sysctl", "-w", "net.ipv4.conf.all.send_redirects=0">>),
       run(<<"sysctl", "-w", "net.ipv4.ip_no_pmtu_disc=1">>) >>

\* configure() up to the network configuration: the statements that do not depend
\* on the settings
ConfigureHead ==
    << [op |-> "init_pki"],
       [op |-> "partition_ipv4"],
       [op |-> "partition_ipv6"],
       [op |-> "template_context"],
       NAMED_CONF_OPTIONS, IPSEC_CONF, IPSEC_SECRETS, STRONGSWAN_CONF, NDPPD_CONF,
       [op |-> "disable_ndppd"],
       [op |-> "remount_rw"] >>

\* configure(): every statement with an effect, in program order
ConfigureCalls(s) ==
    ConfigureHead
      \o NetworkCalls(s)
      \o FirewallCalls(s)
      \o << [op |-> "remount_ro"], [op |-> "return"] >>

\* the statement configure() is about to execute
Current == ConfigureCalls(self)[step]

Running == phase = "configuring"

Advance == /\ step' = step + 1
           /\ phase' = phase
           /\ error' = error

Raise(e) == /\ phase' = "failed"
            /\ error' = e
            /\ step' = step

-----------------------------------------------------------------------------
(* prepare(): settings and classification *)

NoNet == IPNetwork(0, << >>, 0)

NoAddr == << >>

\* variant: every unicast subnet counts as global, private or not
Classify_UnicastOnly(net) ==
    IF is_unicast(net) THEN "GlobalUnicast"
    ELSE IF is_private(net) THEN "SiteLocal"
    ELSE "unsupported"

\* variant: a subnet that is neither is taken as global instead of being rejected
Classify_NoReject(net) ==
    IF is_private(net) THEN "SiteLocal" ELSE "GlobalUnicast"

\* the GUA / site-local decision of prepare()
Classify(net) ==
    IF is_unicast(net) /\ ~is_private(net) THEN "GlobalUnicast"
    ELSE IF is_private(net) THEN "SiteLocal"
    ELSE "unsupported"

-----------------------------------------------------------------------------
(* configure(): client address ranges *)

\* variant: the indices start at 0 (the network address becomes the own address)
ClientRange_FromZero(net) ==
    LET own   == GetItem(net, 0)
        start == GetItem(net, 1)
        end   == GetItem(net, -1)
    IN  [ok    |-> own.ok /\ start.ok /\ end.ok,
         own   |-> own.addr,
         start |-> IF own.ok THEN start.addr ELSE NoAddr,
         end   |-> IF own.ok /\ start.ok THEN end.addr ELSE NoAddr]

\* own address, start and end of the client range of a subnet: [1], [2], [-1]
ClientRange(net) ==
    LET own   == GetItem(net, 1)
        start == GetItem(net, 2)
        end   == GetItem(net, -1)
    IN  [ok    |-> own.ok /\ start.ok /\ end.ok,
         own   |-> own.addr,
         start |-> IF own.ok THEN start.addr ELSE NoAddr,
         end   |-> IF own.ok /\ start.ok THEN end.addr ELSE NoAddr]

\* strongswan can only handle subnets up to /96: use the first /96 of a larger one
MAX_PREFIX_BITS == 96

\* variant: the first /96 is taken of every subnet, the ones smaller than a /96 too
EffectiveSubnet6_Always96(net) == FirstSubnet(net, MAX_PREFIX_BITS)

\* variant: the subnet is used as it is, however large
EffectiveSubnet6_NoClamp(net) == net

EffectiveSubnet6(net) ==
    IF net.prefixlen < MAX_PREFIX_BITS THEN FirstSubnet(net, MAX_PREFIX_BITS) ELSE net

-----------------------------------------------------------------------------
(* ip(6)tables: how a call changes the rule tables.  A chain is named by   *)
(* <<table, chain>>; a rule keeps its target, its arguments and comment.   *)

BuiltinChains ==
    { <<"filter", "INPUT">>, <<"filter", "FORWARD">>, <<"filter", "OUTPUT">>,
      <<"mangle", "FORWARD">>, <<"nat", "POSTROUTING">> }

\* number of tokens an option takes, itself included
OptArity(o) ==
    IF o = "!" THEN 1
    ELSE IF o = "--tcp-flags" THEN 3
    ELSE 2

\* the value given to option opt in args (default when absent)
RECURSIVE OptionFrom(_, _, _, _)
OptionFrom(args, opt, default, i) ==
    IF i > Len(args) THEN default
    ELSE IF args[i] = opt THEN args[i + 1]
    ELSE OptionFrom(args, opt, default, i + OptArity(args[i]))

OptionValue(args, opt, default) == OptionFrom(args, opt, default, 1)

Rule(target, args, comment) == [target |-> target, args |-> args, comment |-> comment]

\* iptables -A <chain> <args> -j <target>: the chain of the call and the rule it appends
AddedChain(call) == << OptionValue(call.args, "-t", "filter"), call.chain >>

AddedRule(call) == Rule(call.target, call.args, call.comment)

\* iptables <args>, for the two forms the code uses: -N <chain> and -t <table> -A <chain> ...
RunIsNewChain(call) == call.args[1] = "-N"

RunChain(call) ==
    IF RunIsNewChain(call)
    THEN << "filter", call.args[2] >>
    ELSE << OptionValue(call.args, "-t", "filter"), OptionValue(call.args, "-A", "") >>

RunRule(call) == Rule(OptionValue(call.args, "-j", ""), call.args, "")

\* a rule can only name a built-in target or a user chain of its table that exists
BuiltinTargets == {"ACCEPT", "DROP", "MASQUERADE", "TCPMSS"}

TargetExists(chains, table, target) ==
    target \in BuiltinTargets \/ << table, target >> \in DOMAIN chains

AppendRule(t, fam, chain, rule) ==
    [t EXCEPT ![fam] = [@ EXCEPT ![chain] = Append(@, rule)]]

NewChain(t, fam, chain) ==
    [t EXCEPT ![fam] = [c \in (DOMAIN @) \cup {chain} |-> IF c \in DOMAIN @ THEN @[c] ELSE << >>]]

-----------------------------------------------------------------------------
(* The run: construction, prepare(), then configure() statement by statement *)

Constructed ==
    /\ self = [ allow_interclient_communication  |-> FALSE,
                client_subnet_ipv4               |-> NoNet,
                client_subnet_ipv6               |-> NoNet,
                client_subnet_ipv6_is_gua        |-> FALSE,
                client_subnet_ipv6_is_site_local |-> FALSE,
                dns_servers                      |-> << >>,
                use_internal_pki                 |-> FALSE,
                protect_clients_from_internet    |-> FALSE,
                pki_paths                        |-> FALSE,
                own_ip_in_client_subnet_ipv4     |-> NoAddr,
                client_ip_range_start_ipv4       |-> NoAddr,
                client_ip_range_end_ipv4         |-> NoAddr,
                effective_client_subnet_ipv6     |-> NoNet,
                own_ip_in_client_subnet_ipv6     |-> NoAddr,
                client_ip_range_start_ipv6       |-> NoAddr,
                client_ip_range_end_ipv6         |-> NoAddr ]
    /\ phase = "init"
    /\ step = 0
    /\ error = ""
    /\ tables = [fam \in {4, 6} |-> [c \in BuiltinChains |-> << >>]]
    /\ sys = [ af_key       |-> FALSE,
               pki          |-> FALSE,
               files        |-> {},
               ndppd        |-> "active",
               proc_sys     |-> env.proc_sys,
               remounted_rw |-> FALSE,
               netcfg       |-> << >>,
               sysctl       |-> {} ]

Init == env \in Environments /\ Constructed

\* the same object in an environment that has DNS settings
InitDns == env \in DnsEnvironments /\ Constructed

\* prepare(): read the settings, parse and classify the subnets, load af_key
Prepare ==
    /\ phase = "init"
    /\ LET s1 == [self EXCEPT !.allow_interclient_communication = env.ALLOW_INTERCLIENT_COMMUNICATION]
           s2 == [s1 EXCEPT !.client_subnet_ipv4 = env.CLIENT_SUBNET_IPV4]
           s3 == [s2 EXCEPT !.client_subnet_ipv6 = env.CLIENT_SUBNET_IPV6]
           s4 == [s3 EXCEPT !.client_subnet_ipv6_is_gua =
                                 (Classify(env.CLIENT_SUBNET_IPV6) = "GlobalUnicast"),
                            !.client_subnet_ipv6_is_site_local =
                                 (Classify(env.CLIENT_SUBNET_IPV6) = "SiteLocal")]
           s5 == [s4 EXCEPT !.dns_servers = DnsServers(env),
                            !.use_internal_pki = env.USE_INTERNAL_PKI,
                            !.protect_clients_from_internet = env.PROTECT_CLIENTS_FROM_INTERNET]
       IN  IF ~WellFormed(env.CLIENT_SUBNET_IPV4)
           THEN self' = s1 /\ Raise("AddrFormatError") /\ sys' = sys
           ELSE IF ~WellFormed(env.CLIENT_SUBNET_IPV6)
           THEN self' = s2 /\ Raise("AddrFormatError") /\ sys' = sys
           ELSE IF Classify(env.CLIENT_SUBNET_IPV6) = "unsupported"
           THEN self' = s3 /\ Raise("RuntimeError") /\ sys' = sys
           ELSE /\ self' = s5
                /\ sys' = [sys EXCEPT !.af_key = TRUE]
                /\ phase' = "configuring"
                /\ step' = 1
                /\ error' = error
    /\ UNCHANGED <<env, tables>>

\* init_pki_internal() creates/loads keys and certificates and sets the four paths;
\* init_pki_external() does nothing
InitPki(call) ==
    /\ call.op = "init_pki"
    /\ IF self.use_internal_pki
       THEN /\ self' = [self EXCEPT !.pki_paths = TRUE]
            /\ sys' = [sys EXCEPT !.pki = TRUE]
       ELSE UNCHANGED <<self, sys>>
    /\ Advance
    /\ UNCHANGED <<env, tables>>

\* own address and client range, IPv4
PartitionIPv4(call) ==
    /\ call.op = "partition_ipv4"
    /\ LET r == ClientRange(self.client_subnet_ipv4)
       IN  /\ self' = [self EXCEPT !.own_ip_in_client_subnet_ipv4 = r.own,
                                   !.client_ip_range_start_ipv4   = r.start,
                                   !.client_ip_range_end_ipv4     = r.end]
           /\ IF r.ok THEN Advance ELSE Raise("IndexError")
    /\ UNCHANGED <<env, tables, sys>>

\* own address and client range, IPv6, on the effective subnet
PartitionIPv6(call) ==
    /\ call.op = "partition_ipv6"
    /\ LET eff == EffectiveSubnet6(self.client_subnet_ipv6)
           r   == ClientRange(eff)
       IN  /\ self' = [self EXCEPT !.effective_client_subnet_ipv6 = eff,
                                   !.own_ip_in_client_subnet_ipv6 = r.own,
                                   !.client_ip_range_start_ipv6   = r.start,
                                   !.client_ip_range_end_ipv6     = r.end]
           /\ IF r.ok THEN Advance ELSE Raise("IndexError")
    /\ UNCHANGED <<env, tables, sys>>

\* template_context reads self._ca_key_path ..., which only init_pki_internal() sets
TemplateContext(call) ==
    /\ call.op = "template_context"
    /\ IF self.pki_paths THEN Advance ELSE Raise("AttributeError")
    /\ UNCHANGED <<env, self, tables, sys>>

\* render a template and write the configuration file
Render(call) ==
    /\ call.op = "render"
    /\ sys' = [sys EXCEPT !.files = @ \cup {call.path}]
    /\ Advance
    /\ UNCHANGED <<env, self, tables>>

\* disable ndppd, if VPN clients do not have global addresses
DisableNdppd(call) ==
    /\ call.op = "disable_ndppd"
    /\ IF ~self.client_subnet_ipv6_is_gua
       THEN sys' = [sys EXCEPT !.ndppd = "inactive"]
       ELSE sys' = sys
    /\ Advance
    /\ UNCHANGED <<env, self, tables>>

\* remount /proc/sys read-write, if it is mounted read-only
RemountRW(call) ==
    /\ call.op = "remount_rw"
    /\ IF sys.proc_sys = "ro"
       THEN sys' = [sys EXCEPT !.proc_sys = "rw", !.remounted_rw = TRUE]
       ELSE sys' = sys
    /\ Advance
    /\ UNCHANGED <<env, self, tables>>

\* run(["ip", ...]) and run(["sysctl", "-w", ...])
Run(call) ==
    /\ call.op = "run"
    /\ IF call.argv[1] = "sysctl"
       THEN sys' = [sys EXCEPT !.sysctl = @ \cup {call.argv[3]}]
       ELSE sys' = [sys EXCEPT !.netcfg = Append(@, call.argv)]
    /\ Advance
    /\ UNCHANGED <<env, self, tables>>

\* iptables_add / ip6tables_add: append a rule to a chain that exists
IptablesAdd(call) ==
    /\ call.op = "iptables_add"
    /\ IF /\ AddedChain(call) \in DOMAIN tables[call.fam]
          /\ TargetExists(tables[call.fam], AddedChain(call)[1], call.target)
       THEN /\ tables' = AppendRule(tables, call.fam, AddedChain(call), AddedRule(call))
            /\ Advance
       ELSE /\ tables' = tables
            /\ Raise("CalledProcessError")
    /\ UNCHANGED <<env, self, sys>>

\* iptables_run / ip6tables_run: create a chain (-N) or append a rule (-A)
IptablesRun(call) ==
    /\ call.op = "iptables_run"
    /\ IF RunIsNewChain(call)
       THEN IF RunChain(call) \in DOMAIN tables[call.fam]
            THEN tables' = tables /\ Raise("CalledProcessError")
            ELSE tables' = NewChain(tables, call.fam, RunChain(call)) /\ Advance
       ELSE IF RunChain(call) \in DOMAIN tables[call.fam]
            THEN tables' = AppendRule(tables, call.fam, RunChain(call), RunRule(call)) /\ Advance
            ELSE tables' = tables /\ Raise("CalledProcessError")
    /\ UNCHANGED <<env, self, sys>>

\* variant: the read-only remount is left out
RemountRO_LeftOut(call) ==
    /\ call.op = "remount_ro"
    /\ sys' = sys
    /\ Advance
    /\ UNCHANGED <<env, self, tables>>

\* remount /proc/sys read-only again, if configure() remounted it
RemountRO(call) ==
    /\ call.op = "remount_ro"
    /\ IF sys.remounted_rw
       THEN sys' = [sys EXCEPT !.proc_sys = "ro"]
       ELSE sys' = sys
    /\ Advance
    /\ UNCHANGED <<env, self, tables>>

\* configure() returns after its last statement
Return(call) ==
    /\ call.op = "return"
    /\ phase' = "done"
    /\ UNCHANGED <<env, self, step, error, tables, sys>>

\* the statements that call out of the process: each can raise instead of taking effect
ExternalOps == {"init_pki", "render", "disable_ndppd", "remount_rw", "run",
                "iptables_add", "iptables_run", "remount_ro"}

\* whether the statement at hand really makes its external call
MakesCall(call) ==
    CASE call.op = "init_pki"      -> self.use_internal_pki
      [] call.op = "disable_ndppd" -> ~self.client_subnet_ipv6_is_gua
      [] call.op = "remount_rw"    -> sys.proc_sys = "ro"
      [] call.op = "remount_ro"    -> sys.remounted_rw
      [] OTHER                        -> TRUE

\* variant: the failure of the call is not noticed and configure() goes on
CallFails_Ignored(call) ==
    /\ call.op \in ExternalOps
    /\ MakesCall(call)
    /\ Advance
    /\ UNCHANGED <<env, self, tables, sys>>

CallFails(call) ==
    /\ call.op \in ExternalOps
    /\ MakesCall(call)
    /\ Raise("CalledProcessError")
    /\ UNCHANGED <<env, self, tables, sys>>

\* the effect of a network or firewall call on the system, as Run, IptablesAdd and
\* IptablesRun have it; st.ok turns false at the call that raises, the rest is skipped
ApplyCall(st, call) ==
    IF ~st.ok THEN st
    ELSE CASE call.op = "run" ->
                IF call.argv[1] = "sysctl"
                THEN [st EXCEPT !.sysctl = @ \cup {call.argv[3]}]
                ELSE [st EXCEPT !.netcfg = Append(@, call.argv)]
           [] call.op = "iptables_add" ->
                IF /\ AddedChain(call) \in DOMAIN st.tables[call.fam]
                   /\ TargetExists(st.tables[call.fam], AddedChain(call)[1], call.target)
                THEN [st EXCEPT !.tables = AppendRule(@, call.fam, AddedChain(call), AddedRule(call))]
                ELSE [st EXCEPT !.ok = FALSE]
           [] call.op = "iptables_run" ->
                IF RunIsNewChain(call)
                THEN IF RunChain(call) \in DOMAIN st.tables[call.fam]
                     THEN [st EXCEPT !.ok = FALSE]
                     ELSE [st EXCEPT !.tables = NewChain(@, call.fam, RunChain(call))]
                ELSE IF RunChain(call) \in DOMAIN st.tables[call.fam]
                     THEN [st EXCEPT !.tables = AppendRule(@, call.fam, RunChain(call), RunRule(call))]
                     ELSE [st EXCEPT !.ok = FALSE]
           [] OTHER -> st

\* the calls from the lo-th to the hi-th, applied in order: the first half, then,
\* unless a call of it raised, the second
RECURSIVE ApplyRange(_, _, _, _)
ApplyRange(st, calls, lo, hi) ==
    IF lo > hi THEN st
    ELSE IF lo = hi THEN ApplyCall(st, calls[lo])
    ELSE LET mid  == (lo + hi) \div 2
             left == ApplyRange(st, calls, lo, mid)
         IN  IF left.ok THEN ApplyRange(left, calls, mid + 1, hi) ELSE left

\* the calls from the i-th on, applied in order
ApplyFrom(st, calls, i) == ApplyRange(st, calls, i, Len(calls))

\* a system without rules, interfaces and settings
FreshSystem ==
    [ok |-> TRUE,
     tables |-> [fam \in {4, 6} |-> [c \in BuiltinChains |-> << >>]],
     netcfg |-> << >>,
     sysctl |-> {}]

Next ==
    \/ Prepare
    \/ Running /\ InitPki(Current)
    \/ Running /\ PartitionIPv4(Current)
    \/ Running /\ PartitionIPv6(Current)
    \/ Running /\ TemplateContext(Current)
    \/ Running /\ Render(Current)
    \/ Running /\ DisableNdppd(Current)
    \/ Running /\ RemountRW(Current)
    \/ Running /\ Run(Current)
    \/ Running /\ IptablesAdd(Current)
    \/ Running /\ IptablesRun(Current)
    \/ Running /\ RemountRO(Current)
    \/ Running /\ Return(Current)
    \/ Running /\ CallFails(Current)

Spec == Init /\ [][Next]_vars

\* The program again, as the specification the properties of the compiled rule set
\* (C16, C18 to C21, C24, C25, C27) are stated for
SpecRuleSet == Init /\ [][Next]_vars

\* The program in the environments with DNS settings
SpecDns == InitDns /\ [][Next]_vars

-----------------------------------------------------------------------------
(* Packet filtering: what the installed rules do to a packet.  A packet is *)
(* a record of the properties the rules of configure() test.               *)

\* --ctstate operand: the connection-tracking states it lists
CtStateList(v) ==
    CASE v = "INVALID"             -> {"INVALID"}
      [] v = "NEW"                 -> {"NEW"}
      [] v = "ESTABLISHED,RELATED" -> {"ESTABLISHED", "RELATED"}
      [] OTHER                     -> {}

\* --mss operand "lo:hi"
MssRange(v) ==
    CASE v = "1361:1500" -> [lo |-> 1361, hi |-> 1500]
      [] v = "1341:1500" -> [lo |-> 1341, hi |-> 1500]
      [] OTHER           -> [lo |-> 1, hi |-> 0]

\* the test one option makes (args[i] is the option, its operands follow)
MatchOne(pkt, args, i) ==
    LET o == args[i]
    IN  CASE o = "-i"            -> pkt.iif = args[i + 1]
          [] o = "-s"            -> InNetwork(pkt.src, args[i + 1])
          [] o = "-d"            -> InNetwork(pkt.dst, args[i + 1])
          [] o = "-p"            -> pkt.proto = args[i + 1]
          [] o = "--dport"       -> pkt.proto \in {"udp", "tcp"} /\ pkt.dport = args[i + 1]
          [] o = "--rt-type"     -> pkt.rt_type = args[i + 1]
          [] o = "--pol"         -> (IF args[i - 1] = "in" THEN pkt.pol_in ELSE pkt.pol_out) = args[i + 1]
          [] o = "--ctstate"     -> pkt.ctstate \in CtStateList(args[i + 1])
          [] o = "--icmp-type"   -> pkt.icmp_type = args[i + 1]
          [] o = "--icmpv6-type" -> pkt.icmp_type = args[i + 1]
          [] o = "--limit"       -> pkt.within_limit
          [] o = "--tcp-flags"   -> pkt.proto = "tcp" /\ pkt.tcp_syn
          [] o = "--mss"         -> /\ pkt.mss >= MssRange(args[i + 1]).lo
                                    /\ pkt.mss <= MssRange(args[i + 1]).hi
          [] OTHER               -> TRUE   \* -m, --dir, --limit-burst, -t, -A, -j, --set-mss

\* all tests of a rule hold ("!" inverts the test that follows it)
RECURSIVE MatchFrom(_, _, _)
MatchFrom(pkt, args, i) ==
    IF i > Len(args) THEN TRUE
    ELSE IF args[i] = "!"
         THEN /\ ~MatchOne(pkt, args, i + 1)
              /\ MatchFrom(pkt, args, i + 1 + OptArity(args[i + 1]))
         ELSE /\ MatchOne(pkt, args, i)
              /\ MatchFrom(pkt, args, i + OptArity(args[i]))

Matches(pkt, rule) == MatchFrom(pkt, rule.args, 1)

TerminalTargets == BuiltinTargets \ {"TCPMSS"}

\* first matching rule wins; a jump evaluates the user chain and comes back when it
\* ends without a verdict; TCPMSS changes the packet and goes on; "RETURN" at the end
RECURSIVE ChainVerdict(_, _, _, _)
ChainVerdict(chains, chain, pkt, i) ==
    IF i > Len(chains[chain]) THEN "RETURN"
    ELSE LET r == chains[chain][i]
         IN  IF ~Matches(pkt, r) THEN ChainVerdict(chains, chain, pkt, i + 1)
             ELSE IF r.target \in TerminalTargets THEN r.target
             ELSE IF << chain[1], r.target >> \in DOMAIN chains
             THEN LET sub == ChainVerdict(chains, << chain[1], r.target >>, pkt, 1)
                  IN  IF sub = "RETURN" THEN ChainVerdict(chains, chain, pkt, i + 1) ELSE sub
             ELSE ChainVerdict(chains, chain, pkt, i + 1)

\* verdict of a built-in chain; "POLICY" when no rule decides
Verdict(fam, table, chain, pkt) ==
    LET v == ChainVerdict(tables[fam], << table, chain >>, pkt, 1)
    IN  IF v = "RETURN" THEN "POLICY" ELSE v

\* --set-mss operand
SetMssValue(v) ==
    CASE v = "1360" -> 1360
      [] v = "1340" -> 1340
      [] OTHER      -> 0

\* the packet as it leaves a chain of the mangle table: each matching TCPMSS rule
\* rewrites the MSS option and the next rule sees the rewritten packet
RECURSIVE MangleFrom(_, _, _)
MangleFrom(rules, pkt, i) ==
    IF i > Len(rules) THEN pkt
    ELSE IF Matches(pkt, rules[i]) /\ rules[i].target = "TCPMSS"
         THEN MangleFrom(rules,
                         [pkt EXCEPT !.mss = SetMssValue(OptionValue(rules[i].args, "--set-mss", ""))],
                         i + 1)
         ELSE MangleFrom(rules, pkt, i + 1)

Mangled(fam, chain, pkt) == MangleFrom(tables[fam][<< "mangle", chain >>], pkt, 1)

-----------------------------------------------------------------------------
(* The packets the properties range over *)

Families == {4, 6}

ClientSubnet(fam) == IF fam = 4 THEN self.client_subnet_ipv4 ELSE self.client_subnet_ipv6

IcmpProto(fam) == IF fam = 4 THEN "icmp" ELSE "icmpv6"

LoopbackAddr(fam) ==
    IF fam = 4 THEN <<127, 0, 0, 1>> ELSE <<0, 0, 0, 0, 0, 0, 0, 1>>

InternetAddr(fam) ==
    IF fam = 4 THEN <<8, 8, 8, 8>> ELSE <<\h2001, \h4860, \h4860, 0, 0, 0, 0, \h8888>>

\* addresses inside the client subnet: its first and its last
ClientAddrs(fam) == { NetFirst(ClientSubnet(fam)), NetLast(ClientSubnet(fam)) }

\* addresses outside the client subnet: a host on the internet and the address
\* that follows the subnet's last one
OutsideAddrs(fam) ==
    { a \in { InternetAddr(fam), AddInt(fam, NetLast(ClientSubnet(fam)), 1) } :
        ~InNetwork(a, ClientSubnet(fam)) }

AllAddrs(fam) == ClientAddrs(fam) \cup OutsideAddrs(fam) \cup {LoopbackAddr(fam)}

\* one address of each kind: a client, a host on the internet, the loopback address
SomeAddrs(fam) == { NetLast(ClientSubnet(fam)), InternetAddr(fam), LoopbackAddr(fam) }

Interfaces == {"lo", "eth0"}

CtStates == {"INVALID", "NEW", "ESTABLISHED", "RELATED", "UNTRACKED"}

Policies == {"none", "ipsec"}

Ports == {"53", "500", "4500", "443"}

\* ICMP types: an allowed one, the rate-limited echo request, one allowed on INPUT
\* only (IPv6 neighbor solicitation) and a redirect, which no chain allows
IcmpTypes(fam) ==
    IF fam = 4 THEN {"3", "5", "8"} ELSE {"2", "128", "135", "137"}

\* protocol part of a packet: UDP/TCP with a port, ICMP with a type, or another protocol
Payloads(fam) ==
    [proto : {"udp", "tcp"}, dport : Ports, icmp_type : {"-"}, within_limit : {TRUE}]
      \cup [proto : {"esp", "gre"}, dport : {"-"}, icmp_type : {"-"}, within_limit : {TRUE}]
      \cup [proto : {IcmpProto(fam)}, dport : {"-"}, icmp_type : IcmpTypes(fam), within_limit : BOOLEAN]

NonIcmpPayloads(fam) == { l \in Payloads(fam) : l.proto # IcmpProto(fam) }

RtTypes(fam) == IF fam = 4 THEN {"-"} ELSE {"-", "0"}

Packet(iif, src, dst, ctstate, pol_in, pol_out, rt_type, payload) ==
    [iif |-> iif, src |-> src, dst |-> dst, ctstate |-> ctstate,
     pol_in |-> pol_in, pol_out |-> pol_out, rt_type |-> rt_type,
     proto |-> payload.proto, dport |-> payload.dport,
     icmp_type |-> payload.icmp_type, within_limit |-> payload.within_limit,
     tcp_syn |-> FALSE, mss |-> 0]

ChainOf(fam, table, chain) == tables[fam][<< table, chain >>]

IsUnconditionalDrop(rule) == rule.target = "DROP" /\ Len(rule.args) = 0

-----------------------------------------------------------------------------
(* Properties *)

FilterChains == {"INPUT", "FORWARD"}

\* C1: after configure completes, the last rule of filter INPUT and of filter FORWARD,
\* IPv4 and IPv6, is an unconditional DROP; and in no state of a run does a rule
\* follow an unconditional DROP in one of these four chains (none is appended after it).
C1_DefaultDenyLast ==
    \A fam \in Families : \A chain \in FilterChains :
        LET c == ChainOf(fam, "filter", chain)
        IN  /\ \A i \in 1..Len(c) : IsUnconditionalDrop(c[i]) => i = Len(c)
            /\ phase = "done" => Len(c) > 0 /\ IsUnconditionalDrop(c[Len(c)])

\* a completed run that installed rules after the default deny (mangle and nat rules),
\* with both optional rule groups present
C1_Witness ==
    /\ phase = "done"
    /\ ~self.allow_interclient_communication
    /\ ~self.protect_clients_from_internet
    /\ Len(ChainOf(6, "nat", "POSTROUTING")) > 0
    /\ Len(ChainOf(4, "mangle", "FORWARD")) > 0
    /\ IsUnconditionalDrop(ChainOf(6, "filter", "FORWARD")[Len(ChainOf(6, "filter", "FORWARD"))])

IsClientAntiSpoofing(fam, rule) ==
    /\ rule.target = "DROP"
    /\ OptionValue(rule.args, "-s", NoNet) = ClientSubnet(fam)
    /\ OptionValue(rule.args, "--dir", "") = "in"
    /\ OptionValue(rule.args, "--pol", "") = "none"
    /\ Len(rule.args) = 8

\* C2: after configure completes, every packet with a source address inside the client
\* subnet that did not arrive via IPSec is dropped by INPUT and by FORWARD, IPv4 and
\* IPv6, whatever the flags, connection state, destination, protocol and port; each
\* chain holds the anti-spoofing DROP and only DROP rules precede it.
C2_SpoofedClientDropped ==
    phase = "done" =>
        \A fam \in Families : \A chain \in FilterChains :
            /\ \A iif \in Interfaces, src \in ClientAddrs(fam), dst \in SomeAddrs(fam),
                  ct \in CtStates, rt \in RtTypes(fam), l \in Payloads(fam) :
                    Verdict(fam, "filter", chain,
                            Packet(iif, src, dst, ct, "none", "none", rt, l)) = "DROP"
            /\ LET c == ChainOf(fam, "filter", chain)
               IN  \E i \in 1..Len(c) :
                     /\ IsClientAntiSpoofing(fam, c[i])
                     /\ \A j \in 1..(i - 1) : c[j].target = "DROP"

\* a completed run in which a spoofed packet of an established connection, which the
\* conntrack rule further down would accept, is dropped by both chains
C2_Witness ==
    /\ phase = "done"
    /\ \E src \in ClientAddrs(6), l \in Payloads(6) :
         LET pkt == Packet("eth0", src, InternetAddr(6), "ESTABLISHED", "none", "none", "-", l)
         IN  /\ pkt.proto = "udp" /\ pkt.dport = "500"
             /\ Verdict(6, "filter", "INPUT", pkt) = "DROP"
             /\ Verdict(6, "filter", "FORWARD", pkt) = "DROP"

\* C3 as claimed: with protectClientsFromInternet, no NEW packet destined for the client
\* subnet that did not arrive via IPSec is accepted by FORWARD (sub-chains included).
C3_NoNewInboundAccepted ==
    (phase = "done" /\ self.protect_clients_from_internet) =>
        \A fam \in Families :
            \A iif \in Interfaces, src \in AllAddrs(fam), dst \in ClientAddrs(fam),
               rt \in RtTypes(fam), l \in Payloads(fam) :
                 Verdict(fam, "filter", "FORWARD",
                         Packet(iif, src, dst, "NEW", "none", "none", rt, l)) # "ACCEPT"

\* C3 amended: with protectClientsFromInternet, no NEW packet other than ICMP / ICMPv6
\* destined for the client subnet that did not arrive via IPSec is accepted by FORWARD;
\* ICMP / ICMPv6 packets are decided by AllowICMP_F, which accepts an allow-listed type
\* from the internet to a client without any tunnel-origin check.
C3_NoNewInboundAcceptedExceptIcmp ==
    (phase = "done" /\ self.protect_clients_from_internet) =>
        \A fam \in Families :
            /\ \A iif \in Interfaces, src \in AllAddrs(fam), dst \in ClientAddrs(fam),
                  rt \in RtTypes(fam), l \in NonIcmpPayloads(fam) :
                    Verdict(fam, "filter", "FORWARD",
                            Packet(iif, src, dst, "NEW", "none", "none", rt, l)) = "DROP"
            /\ \A dst \in ClientAddrs(fam) :
                    Verdict(fam, "filter", "FORWARD",
                            Packet("eth0", InternetAddr(fam), dst, "NEW", "none", "none", "-",
                                   [proto |-> IcmpProto(fam), dport |-> "-",
                                    icmp_type |-> IF fam = 4 THEN "3" ELSE "2",
                                    within_limit |-> TRUE])) = "ACCEPT"

\* a protected run in which a TCP connection attempt from the internet to a client is dropped
C3_Witness ==
    /\ phase = "done"
    /\ self.protect_clients_from_internet
    /\ \E dst \in ClientAddrs(4) :
         Verdict(4, "filter", "FORWARD",
                 Packet("eth0", InternetAddr(4), dst, "NEW", "none", "none", "-",
                        [proto |-> "tcp", dport |-> "443", icmp_type |-> "-",
                         within_limit |-> TRUE])) = "DROP"

IsInterClientDrop(fam, rule) ==
    /\ rule.target = "DROP"
    /\ Len(rule.args) = 4
    /\ OptionValue(rule.args, "-s", NoNet) = ClientSubnet(fam)
    /\ OptionValue(rule.args, "-d", NoNet) = ClientSubnet(fam)

\* a rule that can accept a packet of a new connection: not a DROP, and not
\* restricted to another connection state
AcceptsNew(rule) ==
    /\ rule.target # "DROP"
    /\ OptionValue(rule.args, "--ctstate", "NEW") = "NEW"

\* C4: after configure completes with allowInterClientCommunication false, FORWARD of
\* each family holds a DROP rule with source and destination the client subnet, before
\* the default deny and before every rule that accepts new connections; with the flag
\* true, no such rule exists in either family.
C4_InterClientIsolation ==
    phase = "done" =>
        \A fam \in Families :
            LET c == ChainOf(fam, "filter", "FORWARD")
            IN  IF ~env.ALLOW_INTERCLIENT_COMMUNICATION
                THEN \E i \in 1..Len(c) :
                       /\ IsInterClientDrop(fam, c[i])
                       /\ \A j \in 1..Len(c) :
                            (IsUnconditionalDrop(c[j]) \/ AcceptsNew(c[j])) => i < j
                ELSE \A i \in 1..Len(c) : ~IsInterClientDrop(fam, c[i])

\* a completed run with isolation in which all three kinds of new-connection rules
\* follow the isolation rule of the IPv6 FORWARD chain
C4_Witness ==
    /\ phase = "done"
    /\ ~env.ALLOW_INTERCLIENT_COMMUNICATION
    /\ ~env.PROTECT_CLIENTS_FROM_INTERNET
    /\ LET c == ChainOf(6, "filter", "FORWARD")
       IN  \E i \in 1..Len(c) :
             /\ IsInterClientDrop(6, c[i])
             /\ Cardinality({ j \in (i + 1)..Len(c) : AcceptsNew(c[j]) }) = 3

\* the group of the spec's ordering contract a rule of a top-level filter chain
\* belongs to, numbered in the order of the contract (0: none)
GroupRank(rule) ==
    LET a == rule.args
    IN  CASE rule.target = "DROP" /\ OptionValue(a, "--rt-type", "") = "0"          -> 1
          [] rule.target = "DROP" /\ Len(a) > 0 /\ OptionValue(a, "-i", "") = "lo"  -> 2
          [] rule.target = "DROP" /\ OptionValue(a, "--pol", "") = "none"           -> 2
          [] rule.target = "ACCEPT" /\ Len(a) = 2 /\ OptionValue(a, "-i", "") = "lo" -> 3
          [] rule.target = "ACCEPT" /\ OptionValue(a, "-p", "") = "udp"
               /\ OptionValue(a, "--dport", "") \in {"500", "4500"}                 -> 4
          [] rule.target = "ACCEPT" /\ OptionValue(a, "-p", "") = "esp"             -> 4
          [] rule.target = "DROP" /\ OptionValue(a, "--ctstate", "") = "INVALID"    -> 5
          [] rule.target = "ACCEPT"
               /\ OptionValue(a, "--ctstate", "") = "ESTABLISHED,RELATED"           -> 6
          [] rule.target = "ACCEPT" /\ OptionValue(a, "--dport", "") = "53"         -> 7
          [] rule.target = "DROP" /\ OptionValue(a, "-s", NoNet) # NoNet
               /\ OptionValue(a, "-d", NoNet) # NoNet                               -> 8
          [] rule.target \in {"AllowICMP_I", "AllowICMP_F"}                         -> 9
          [] rule.target = "ACCEPT" /\ OptionValue(a, "--ctstate", "") = "NEW"
               /\ OptionValue(a, "-s", NoNet) # NoNet                               -> 10
          [] rule.target = "ACCEPT" /\ OptionValue(a, "--ctstate", "") = "NEW"
               /\ OptionValue(a, "-d", NoNet) # NoNet                               -> 11
          [] IsUnconditionalDrop(rule)                                              -> 12
          [] OTHER                                                                  -> 0

\* C5: after configure completes, in every top-level filter chain of each family the
\* rules stand in the group order of the contract: exploit filtering, anti-spoofing,
\* loopback, control plane, stateful (INVALID drop, then ESTABLISHED/RELATED accept),
\* DNS, isolation, ICMP dispatch, new from clients, new from the internet, default deny.
C5_GroupOrder ==
    phase = "done" =>
        \A fam \in Families : \A chain \in {"INPUT", "FORWARD", "OUTPUT"} :
            LET c == ChainOf(fam, "filter", chain)
            IN  /\ \A i \in 1..Len(c) : GroupRank(c[i]) > 0
                /\ \A i \in 1..Len(c) : \A j \in (i + 1)..Len(c) :
                       GroupRank(c[i]) <= GroupRank(c[j])

\* a completed run whose IPv6 FORWARD chain holds every group a FORWARD chain can
\* hold and whose IPv4 INPUT chain holds control-plane, stateful and DNS rules
C5_Witness ==
    /\ phase = "done"
    /\ { GroupRank(ChainOf(6, "filter", "FORWARD")[i]) :
           i \in 1..Len(ChainOf(6, "filter", "FORWARD")) } = {1, 2, 5, 6, 8, 9, 10, 11, 12}
    /\ { GroupRank(ChainOf(4, "filter", "INPUT")[i]) :
           i \in 1..Len(ChainOf(4, "filter", "INPUT")) } = {2, 3, 4, 5, 6, 7, 9, 12}

IsRH0Drop(rule) ==
    /\ rule.target = "DROP"
    /\ Len(rule.args) = 4
    /\ OptionValue(rule.args, "-m", "") = "rt"
    /\ OptionValue(rule.args, "--rt-type", "") = "0"

\* C6: after configure completes, the first rule of IPv6 INPUT, FORWARD and OUTPUT is
\* the DROP of packets with a type-0 routing header, and every IPv6 packet with such a
\* header is dropped by each of the three chains, whatever its interface, addresses,
\* connection state, IPSec policy and protocol.
C6_RH0Dropped ==
    phase = "done" =>
        \A chain \in {"INPUT", "FORWARD", "OUTPUT"} :
            LET c == ChainOf(6, "filter", chain)
            IN  /\ Len(c) > 0
                /\ IsRH0Drop(c[1])
                /\ \A iif \in Interfaces, src \in AllAddrs(6), dst \in SomeAddrs(6),
                      ct \in CtStates, pol \in Policies, l \in Payloads(6) :
                        Verdict(6, "filter", chain,
                                Packet(iif, src, dst, ct, pol, "none", "0", l)) = "DROP"

\* a completed run in which a loopback packet and an IKE packet of an established
\* connection, both with a type-0 routing header, are dropped
C6_Witness ==
    /\ phase = "done"
    /\ Verdict(6, "filter", "INPUT",
               Packet("lo", LoopbackAddr(6), LoopbackAddr(6), "ESTABLISHED", "none", "none", "0",
                      [proto |-> "udp", dport |-> "500", icmp_type |-> "-",
                       within_limit |-> TRUE])) = "DROP"
    /\ Verdict(6, "filter", "OUTPUT",
               Packet("lo", LoopbackAddr(6), InternetAddr(6), "NEW", "none", "none", "0",
                      [proto |-> "udp", dport |-> "500", icmp_type |-> "-",
                       within_limit |-> TRUE])) = "DROP"
    /\ Verdict(6, "filter", "OUTPUT",
               Packet("lo", LoopbackAddr(6), InternetAddr(6), "NEW", "none", "none", "-",
                      [proto |-> "udp", dport |-> "500", icmp_type |-> "-",
                       within_limit |-> TRUE])) = "POLICY"

IsMasquerade(fam, rule) ==
    /\ rule.target = "MASQUERADE"
    /\ OptionValue(rule.args, "-s", NoNet) = ClientSubnet(fam)

\* C7: after configure completes, IPv6 nat POSTROUTING holds a MASQUERADE rule for the
\* IPv6 client subnet exactly when the subnet is SiteLocal; for a GlobalUnicast subnet
\* the IPv6 nat table holds no rule at all; and IPv4 nat POSTROUTING always holds the
\* MASQUERADE rule for the IPv4 client subnet.
C7_MasqueradeOnlySiteLocal ==
    phase = "done" =>
        LET nat4 == ChainOf(4, "nat", "POSTROUTING")
            nat6 == ChainOf(6, "nat", "POSTROUTING")
            class == Classify(env.CLIENT_SUBNET_IPV6)
        IN  /\ (\E i \in 1..Len(nat6) : IsMasquerade(6, nat6[i])) <=> (class = "SiteLocal")
            /\ (class = "GlobalUnicast") => \A c \in DOMAIN tables[6] :
                                               c[1] = "nat" => Len(tables[6][c]) = 0
            /\ \E i \in 1..Len(nat4) : IsMasquerade(4, nat4[i])

\* a completed run with a GlobalUnicast subnet: IPv4 is masqueraded, IPv6 is not
C7_Witness ==
    /\ phase = "done"
    /\ Classify(env.CLIENT_SUBNET_IPV6) = "GlobalUnicast"
    /\ Len(ChainOf(6, "nat", "POSTROUTING")) = 0
    /\ Len(ChainOf(4, "nat", "POSTROUTING")) = 2

\* C8 as claimed: every IPv4 packet with a source in the client subnet that leaves via
\* an IPSec-protected path is masqueraded by nat POSTROUTING.
C8_IPSecOutMasqueraded ==
    phase = "done" =>
        \A src \in ClientAddrs(4), dst \in AllAddrs(4), ct \in CtStates,
           pol \in Policies, l \in Payloads(4) :
             Verdict(4, "nat", "POSTROUTING",
                     Packet("eth0", src, dst, ct, pol, "ipsec", "-", l)) = "MASQUERADE"

\* C8 amended: every IPv4 packet with a source in the client subnet that leaves via an
\* IPSec-protected path is accepted unchanged by nat POSTROUTING (its first matching
\* rule is the ACCEPT that exempts tunnel traffic from NAT); the packets from the client
\* subnet that leave without IPSec are the ones that are masqueraded.
C8_IPSecOutExemptFromNat ==
    phase = "done" =>
        \A src \in ClientAddrs(4), dst \in AllAddrs(4), ct \in CtStates,
           pol \in Policies, l \in Payloads(4) :
             /\ Verdict(4, "nat", "POSTROUTING",
                        Packet("eth0", src, dst, ct, pol, "ipsec", "-", l)) = "ACCEPT"
             /\ Verdict(4, "nat", "POSTROUTING",
                        Packet("eth0", src, dst, ct, pol, "none", "-", l)) = "MASQUERADE"

\* a completed run in which a client's packet leaving through the tunnel is accepted
\* and the same packet leaving in the clear is masqueraded
C8_Witness ==
    /\ phase = "done"
    /\ \E src \in ClientAddrs(4) :
         LET l == [proto |-> "tcp", dport |-> "443", icmp_type |-> "-", within_limit |-> TRUE]
         IN  /\ Verdict(4, "nat", "POSTROUTING",
                        Packet("eth0", src, InternetAddr(4), "NEW", "ipsec", "ipsec", "-", l)) = "ACCEPT"
             /\ Verdict(4, "nat", "POSTROUTING",
                        Packet("eth0", src, InternetAddr(4), "NEW", "ipsec", "none", "-", l)) = "MASQUERADE"

\* the statement op of configure(), one of those ahead of the network configuration,
\* has been executed (to its end or to an exception)
Executed(op) ==
    /\ step >= 1
    /\ LET i == CHOOSE k \in 1..Len(ConfigureHead) : ConfigureHead[k].op = op
       IN  step > i \/ (step = i /\ phase = "failed")

\* b is the address that follows a
IsSuccessor(version, a, b) ==
    /\ Len(a) = NumLimbs(version) /\ Len(b) = NumLimbs(version)
    /\ \E i \in 1..Len(a) :
         /\ b[i] = a[i] + 1
         /\ \A j \in 1..(i - 1) : b[j] = a[j]
         /\ \A j \in (i + 1)..Len(a) : a[j] = Pow2(LimbBits(version)) - 1 /\ b[j] = 0

\* addr is the address of net with every host bit set
IsLastOf(addr, net) ==
    /\ Len(addr) = NumLimbs(net.version)
    /\ InNetwork(addr, net)
    /\ \A i \in 1..Len(addr) :
         LET m == Pow2(LimbBits(net.version) - KeepBits(net.version, net.prefixlen, i))
         IN  addr[i] % m = m - 1

\* own is at offset 1 and start at offset 2 of net, end is its last address,
\* own < start <= end, and all three lie inside net
RangeDerivedFrom(net, own, start, end) ==
    /\ IsSuccessor(net.version, NetFirst(net), own)
    /\ IsSuccessor(net.version, own, start)
    /\ IsLastOf(end, net)
    /\ AddrLt(own, start) /\ AddrLe(start, end)
    /\ InNetwork(own, net) /\ InNetwork(start, net) /\ InNetwork(end, net)

\* C9: for every IPv4 client subnet with at least 4 addresses, once configure has
\* computed the range, the own (server) address is at offset 1 of the subnet, the
\* range start at offset 2, the range end is the subnet's last address,
\* own < start <= end, and all three lie inside the subnet.
C9_PartitionIPv4 ==
    (Executed("partition_ipv4") /\ self.client_subnet_ipv4.prefixlen <= Width(4) - 2) =>
        RangeDerivedFrom(self.client_subnet_ipv4,
                         self.own_ip_in_client_subnet_ipv4,
                         self.client_ip_range_start_ipv4,
                         self.client_ip_range_end_ipv4)

\* the range of 192.168.77.9/30, the smallest valid subnet, written with host bits set
C9_Witness ==
    /\ Executed("partition_ipv4")
    /\ self.client_subnet_ipv4 = IPNetwork(4, <<192, 168, 77, 9>>, 30)
    /\ self.own_ip_in_client_subnet_ipv4 = <<192, 168, 77, 9>>
    /\ self.client_ip_range_start_ipv4 = <<192, 168, 77, 10>>
    /\ self.client_ip_range_end_ipv4 = <<192, 168, 77, 11>>

\* the effective subnet is S itself from /96 on, else the /96 that starts at S's base
EffectiveSubnetOf(eff, S) ==
    IF S.prefixlen >= MAX_PREFIX_BITS
    THEN eff = S
    ELSE eff.version = 6 /\ eff.prefixlen = MAX_PREFIX_BITS /\ NetFirst(eff) = NetFirst(S)

Prepared == phase \in {"configuring", "done"} \/ (phase = "failed" /\ step >= 1)

Untouched ==
    /\ ~sys.pki
    /\ sys.files = {}
    /\ sys.ndppd = "active"
    /\ sys.proc_sys = env.proc_sys /\ ~sys.remounted_rw
    /\ sys.netcfg = << >>
    /\ sys.sysctl = {}
    /\ \A fam \in Families :
         /\ DOMAIN tables[fam] = BuiltinChains
         /\ \A c \in BuiltinChains : tables[fam][c] = << >>

\* the subnets prepare() must refuse
InvalidSubnets ==
    IF ~WellFormed(env.CLIENT_SUBNET_IPV4) \/ ~WellFormed(env.CLIENT_SUBNET_IPV6)
    THEN TRUE
    ELSE ~is_unicast(env.CLIENT_SUBNET_IPV6) /\ ~is_private(env.CLIENT_SUBNET_IPV6)

\* C12: a malformed IPv4 or IPv6 subnet, or an IPv6 subnet that is neither global
\* unicast nor private, makes prepare fail, and in the failed run no PKI material, no
\* configuration file, no interface, route or sysctl and no firewall rule exists:
\* configure never starts.
C12_FailedPrepareChangesNothing ==
    /\ (phase = "failed" /\ step = 0) => (InvalidSubnets /\ Untouched /\ ~sys.af_key)
    /\ (InvalidSubnets /\ phase # "init") => (phase = "failed" /\ step = 0)

\* prepare has failed on the multicast subnet ff02::/16
C12_Witness ==
    /\ phase = "failed" /\ step = 0 /\ error = "RuntimeError"
    /\ self.client_subnet_ipv6 = IPNetwork(6, <<\hff02, 0, 0, 0, 0, 0, 0, 0>>, 16)
    /\ Untouched

\* C13 as claimed: an IPv4 subnet of prefix length /31 or /32 is rejected before any
\* rule is compiled, and when the error is raised no PKI material has been created, no
\* configuration file written, no interface configured and no firewall rule installed.
C13_SmallIPv4RejectedCleanly ==
    ( /\ phase # "init" /\ ~InvalidSubnets
      /\ env.CLIENT_SUBNET_IPV4.prefixlen >= Width(4) - 1 ) =>
        /\ phase # "done"
        /\ \A fam \in Families : \A c \in DOMAIN tables[fam] : tables[fam][c] = << >>
        /\ phase = "failed" => Untouched

\* everything applied so far is still there after the step
NothingRolledBack ==
    /\ \A fam \in Families : \A c \in DOMAIN tables[fam] :
         /\ c \in DOMAIN tables'[fam]
         /\ Len(tables'[fam][c]) >= Len(tables[fam][c])
         /\ SubSeq(tables'[fam][c], 1, Len(tables[fam][c])) = tables[fam][c]
    /\ sys.files \subseteq sys'.files
    /\ sys.sysctl \subseteq sys'.sysctl
    /\ Len(sys'.netcfg) >= Len(sys.netcfg)
    /\ SubSeq(sys'.netcfg, 1, Len(sys.netcfg)) = sys.netcfg
    /\ sys.pki => sys'.pki

\* C14: a step of configure() that calls out of the process either takes effect and
\* passes control to the next statement, or fails: then configure() ends with an error
\* at that statement, everything applied before is left as it is, and no further
\* statement is ever executed (a failed run takes no step).
C14_FailureStopsTheRun ==
    [][ /\ phase # "failed"
        /\ NothingRolledBack
        /\ (Running /\ Current.op \in ExternalOps /\ MakesCall(Current)) =>
             \/ /\ phase' = "failed" /\ error' # "" /\ step' = step
                /\ tables' = tables /\ sys' = sys /\ self' = self
             \/ /\ phase' = "configuring" /\ step' = step + 1
                /\ << tables', sys' >> # << tables, sys >>
      ]_vars

\* configure() has failed at a rule in the middle of the firewall section: the network
\* is configured, INPUT has rules but not yet its final DROP
C14_Witness ==
    /\ phase = "failed" /\ error = "CalledProcessError"
    /\ Current.op = "iptables_add"
    /\ sys.netcfg # << >>
    /\ Len(ChainOf(4, "filter", "INPUT")) > 0
    /\ ~IsUnconditionalDrop(ChainOf(4, "filter", "INPUT")[Len(ChainOf(4, "filter", "INPUT"))])

\* C15 as claimed: with USE_INTERNAL_PKI off, init_pki_external() leaves the run with
\* the same key/certificate paths as the internal mode, so that configure() gets past
\* the template context to the rendering of the files, unless it failed with
\* MissingExternalPki because a required file is absent or unreadable.
C15_ExternalPkiProceeds ==
    (Prepared /\ ~self.use_internal_pki) =>
        \/ phase = "failed" /\ error = "MissingExternalPki"
        \/ /\ Executed("init_pki") => self.pki_paths
           /\ Executed("template_context") => ~(phase = "failed" /\ Current.op = "template_context")

\* how many of the firewall calls of configure() have been executed
RulesApplied ==
    LET n     == Len(FirewallCalls(self))
        first == Len(ConfigureHead) + Len(NetworkCalls(self)) + 1
    IN  IF step < first THEN 0 ELSE IF step - first > n THEN n ELSE step - first

AppliedAgain ==
    ApplyFrom([ok |-> TRUE, tables |-> tables, netcfg |-> sys.netcfg, sysctl |-> sys.sysctl],
              NetworkCalls(self) \o FirewallCalls(self), 1)

\* the dummy devices created by a sequence of ip commands
LinksAdded(netcfg) ==
    Cardinality({ i \in 1..Len(netcfg) : netcfg[i][2] = "link" /\ netcfg[i][3] = "add" })

\* C17 as claimed: applying the sequence a second time, with the same inputs, to the
\* system a completed configure() left behind does not fail, leaves every chain with
\* the rules it had (no duplicated mangle, filter or nat rule), creates the AllowICMP
\* chains without error and no second dummy interface.
C17_SecondApplicationAddsNothing ==
    phase = "done" =>
        /\ AppliedAgain.ok
        /\ AppliedAgain.tables = tables
        /\ LinksAdded(AppliedAgain.netcfg) = LinksAdded(sys.netcfg)

\* the rule of a top-level filter chain that hands ICMP to its sub-chain
IcmpChain(chain) == IF chain = "INPUT" THEN "AllowICMP_I" ELSE "AllowICMP_F"

DispatchIndex(fam, chain) ==
    CHOOSE i \in 1..Len(ChainOf(fam, "filter", chain)) :
        ChainOf(fam, "filter", chain)[i].target = IcmpChain(chain)

\* the rule tables with the top-level chain cut off ahead of its dispatch rule
ChainsBeforeDispatch(fam, chain) ==
    [tables[fam] EXCEPT ![<< "filter", chain >>] = SubSeq(@, 1, DispatchIndex(fam, chain) - 1)]

\* what the rules ahead of the dispatch rule decide ("RETURN": the packet reaches it)
VerdictBeforeDispatch(fam, chain, pkt) ==
    ChainVerdict(ChainsBeforeDispatch(fam, chain), << "filter", chain >>, pkt, 1)

\* the ICMP types the properties range over: every type of the tables in
\* configure() and two that are in neither (IPv4 redirect and timestamp, IPv6
\* redirect and a private-experimentation type)
IcmpTypesAll(fam) ==
    IF fam = 4
    THEN {"0", "3", "5", "8", "11", "12", "13", "30"}
    ELSE {"1", "2", "3", "4", "100", "128", "129", "130", "131", "132", "133", "134",
          "135", "136", "137", "151", "152", "153"}

EchoRequest(fam) == IF fam = 4 THEN "8" ELSE "128"

\* the allow-list of each chain
IcmpAllowed(fam, chain) ==
    IF fam = 4 THEN {"0", "3", "8", "11", "12", "30"}
    ELSE IF chain = "INPUT"
    THEN {"1", "2", "3", "4", "128", "129", "130", "131", "132",
          "133", "134", "135", "136", "151", "152", "153"}
    ELSE {"1", "2", "3", "4", "128", "129", "130", "131", "132"}

\* C18 (packets over a rate limit are those of the one rate-limited type, echo request):
\* every ICMP / ICMPv6 packet that reaches the dispatch rule of INPUT or FORWARD gets
\* its verdict inside the AllowICMP sub-chain, never from a later rule of the top-level
\* chain (the dispatch rule tests the protocol only and the sub-chain ends with an
\* unconditional DROP): ACCEPT when its type is in the chain's allow-list (echo request
\* only within its rate limit), DROP otherwise; ICMPv6 types 133, 134, 135, 136, 151,
\* 152 and 153 are accepted on INPUT and dropped on FORWARD.
C18_IcmpDecidedInSubChain ==
    phase = "done" =>
        \A fam \in Families : \A chain \in FilterChains :
            LET before == ChainsBeforeDispatch(fam, chain)
                at     == DispatchIndex(fam, chain)
                sub    == ChainOf(fam, "filter", IcmpChain(chain))
            IN  /\ ChainOf(fam, "filter", chain)[at].args = << "-p", IcmpProto(fam) >>
                /\ Len(sub) > 0 /\ IsUnconditionalDrop(sub[Len(sub)])
                /\ \A iif \in Interfaces,
                      src \in {NetLast(ClientSubnet(fam)), InternetAddr(fam)},
                      dst \in {NetLast(ClientSubnet(fam)), InternetAddr(fam)},
                      ct \in CtStates, pol \in Policies,
                      type \in IcmpTypesAll(fam), within \in BOOLEAN :
                        LET pkt == Packet(iif, src, dst, ct, pol, "none", "-",
                                          [proto |-> IcmpProto(fam), dport |-> "-",
                                           icmp_type |-> type, within_limit |-> within])
                        IN  ( /\ within \/ type = EchoRequest(fam)
                              /\ ChainVerdict(before, << "filter", chain >>, pkt, 1) = "RETURN" ) =>
                              \* the chain, taken up at the dispatch rule
                              ChainVerdict(tables[fam], << "filter", chain >>, pkt, at)
                                = IF /\ type \in IcmpAllowed(fam, chain)
                                     /\ (type = EchoRequest(fam) => within)
                                  THEN "ACCEPT" ELSE "DROP"

\* a completed run in which a neighbor solicitation from the internet, in state NEW,
\* reaches both dispatch rules and is accepted on INPUT and dropped on FORWARD, as is
\* an echo request over its rate limit on both
C18_Witness ==
    /\ phase = "done"
    /\ LET ns   == Packet("eth0", InternetAddr(6), InternetAddr(6), "NEW", "none", "none", "-",
                          [proto |-> "icmpv6", dport |-> "-", icmp_type |-> "135", within_limit |-> TRUE])
           echo == Packet("eth0", InternetAddr(6), InternetAddr(6), "NEW", "none", "none", "-",
                          [proto |-> "icmpv6", dport |-> "-", icmp_type |-> "128", within_limit |-> FALSE])
       IN  /\ VerdictBeforeDispatch(6, "INPUT", ns) = "RETURN"
           /\ VerdictBeforeDispatch(6, "FORWARD", ns) = "RETURN"
           /\ Verdict(6, "filter", "INPUT", ns) = "ACCEPT"
           /\ Verdict(6, "filter", "FORWARD", ns) = "DROP"
           /\ Verdict(6, "filter", "INPUT", echo) = "DROP"
           /\ Verdict(6, "filter", "FORWARD", echo) = "DROP"

\* MSS values a SYN can carry: small, around both clamp values, around the upper end
\* of the matched range, a jumbo-frame MSS and the largest value of the option
MssValues == {536, 1340, 1341, 1360, 1361, 1460, 1500, 1501, 8960, 65535}

\* a TCP SYN from a client that arrived through the tunnel
ClientSyn(fam, src, dst, mss) ==
    [Packet("eth0", src, dst, "NEW", "ipsec", "none", "-",
            [proto |-> "tcp", dport |-> "443", icmp_type |-> "-", within_limit |-> TRUE])
       EXCEPT !.tcp_syn = TRUE, !.mss = mss]

MssLimit(fam) == IF fam = 4 THEN 1360 ELSE 1340

\* C19 as claimed: every TCP SYN from the client subnet that arrived via IPSec leaves
\* mangle FORWARD with an MSS of at most 1360 (IPv4) or 1340 (IPv6), whatever MSS it
\* came with.
C19_MssClampedForEveryMss ==
    phase = "done" =>
        \A fam \in Families : \A src \in ClientAddrs(fam), dst \in OutsideAddrs(fam),
           mss \in MssValues :
             Mangled(fam, "FORWARD", ClientSyn(fam, src, dst, mss)).mss <= MssLimit(fam)

\* C19 amended: such a SYN leaves mangle FORWARD with an MSS of at most 1360 (IPv4) or
\* 1340 (IPv6) when it came with an MSS of at most 1500: a larger value in that range
\* is set to the limit, a smaller one is kept; a SYN with an MSS above 1500 is not
\* matched and leaves with its MSS unchanged.
C19_MssClampedUpTo1500 ==
    phase = "done" =>
        \A fam \in Families : \A src \in ClientAddrs(fam), dst \in OutsideAddrs(fam),
           mss \in MssValues :
             LET out == Mangled(fam, "FORWARD", ClientSyn(fam, src, dst, mss)).mss
             IN  IF mss > 1500 THEN out = mss
                 ELSE IF mss > MssLimit(fam) THEN out = MssLimit(fam)
                 ELSE out = mss

\* a completed run in which a client's SYN with MSS 1460 leaves with 1360 (IPv4) and
\* with 1340 (IPv6)
C19_Witness ==
    /\ phase = "done"
    /\ \A fam \in Families :
         \E src \in ClientAddrs(fam) :
             Mangled(fam, "FORWARD", ClientSyn(fam, src, InternetAddr(fam), 1460)).mss = MssLimit(fam)

\* IKE, NAT traversal and ESP
ControlPlanePayloads ==
    { [proto |-> "udp", dport |-> "500",  icmp_type |-> "-", within_limit |-> TRUE],
      [proto |-> "udp", dport |-> "4500", icmp_type |-> "-", within_limit |-> TRUE],
      [proto |-> "esp", dport |-> "-",    icmp_type |-> "-", within_limit |-> TRUE] }

\* C20: every INPUT packet to UDP port 500, UDP port 4500 or of protocol ESP is
\* accepted, in both families and in every connection-tracking state (INVALID and NEW
\* included), unless it carries a type-0 routing header (IPv6), has a loopback source
\* on an interface other than lo, or has a client-subnet source without having arrived
\* via IPSec; then it is dropped.
C20_ControlPlaneAccepted ==
    phase = "done" =>
        \A fam \in Families :
            \A iif \in Interfaces, src \in AllAddrs(fam), dst \in SomeAddrs(fam),
               ct \in CtStates, pol \in Policies, rt \in RtTypes(fam),
               l \in ControlPlanePayloads :
                 Verdict(fam, "filter", "INPUT", Packet(iif, src, dst, ct, pol, "none", rt, l))
                   = IF \/ rt = "0"
                        \/ (iif # "lo" /\ InNetwork(src, IF fam = 4 THEN LOOPBACK_V4 ELSE LOOPBACK_V6))
                        \/ (InNetwork(src, ClientSubnet(fam)) /\ pol = "none")
                     THEN "DROP" ELSE "ACCEPT"

\* a completed run in which an IPv6 NAT-T packet in state INVALID and an IPv4 ESP
\* packet in state NEW, both from the internet, are accepted
C20_Witness ==
    /\ phase = "done"
    /\ Verdict(6, "filter", "INPUT",
               Packet("eth0", InternetAddr(6), InternetAddr(6), "INVALID", "none", "none", "-",
                      [proto |-> "udp", dport |-> "4500", icmp_type |-> "-", within_limit |-> TRUE]))
         = "ACCEPT"
    /\ Verdict(4, "filter", "INPUT",
               Packet("eth0", InternetAddr(4), InternetAddr(4), "NEW", "none", "none", "-",
                      [proto |-> "esp", dport |-> "-", icmp_type |-> "-", within_limit |-> TRUE]))
         = "ACCEPT"

DnsPayload(proto) == [proto |-> proto, dport |-> "53", icmp_type |-> "-", within_limit |-> TRUE]

\* C21: a NEW-state INPUT packet to UDP or TCP port 53 that arrived on a non-loopback
\* interface is accepted only if its source lies in the client subnet and it arrived
\* via an IPSec-protected path; every other such packet is dropped, in both families.
C21_DnsOnlyFromClientsViaIPSec ==
    phase = "done" =>
        \A fam \in Families :
            \A iif \in Interfaces \ {"lo"}, src \in AllAddrs(fam), dst \in SomeAddrs(fam),
               pol \in Policies, rt \in RtTypes(fam), proto \in {"udp", "tcp"} :
                 LET v == Verdict(fam, "filter", "INPUT",
                                  Packet(iif, src, dst, "NEW", pol, "none", rt, DnsPayload(proto)))
                 IN  IF InNetwork(src, ClientSubnet(fam)) /\ pol = "ipsec"
                     THEN v \in {"ACCEPT", "DROP"}
                     ELSE v = "DROP"

\* a completed run in which a DNS query of a client that arrived via IPSec is accepted
\* and the same query from the internet, also via IPSec, is dropped, in both families
C21_Witness ==
    /\ phase = "done"
    /\ \A fam \in Families :
         /\ Verdict(fam, "filter", "INPUT",
                    Packet("eth0", NetLast(ClientSubnet(fam)), InternetAddr(fam), "NEW",
                           "ipsec", "none", "-", DnsPayload("udp"))) = "ACCEPT"
         /\ Verdict(fam, "filter", "INPUT",
                    Packet("eth0", InternetAddr(fam), InternetAddr(fam), "NEW",
                           "ipsec", "none", "-", DnsPayload("tcp"))) = "DROP"

\* C22 as claimed: in the context handed to the templates, the DNS server list is
\* DNS_SERVERS split on commas with each entry trimmed, in order, when USE_DOCKER_DNS
\* is false and DNS_SERVERS is set; it is the single entry 127.0.0.11 when
\* USE_DOCKER_DNS is true; and it is the default list of public resolvers only when
\* DNS_SERVERS is not set.
C22_CustomDnsServersUsed ==
    Executed("template_context") =>
        /\ (~env.USE_DOCKER_DNS /\ env.DNS_SERVERS.set) =>
               self.dns_servers = SplitAndStrip(env.DNS_SERVERS.text)
        /\ env.USE_DOCKER_DNS => self.dns_servers = << DOCKER_DNS >>
        /\ self.dns_servers = SplitAndStrip(DEFAULT_DNS_SERVERS) => ~env.DNS_SERVERS.set

\* a sysctl write of configure() has switched forwarding on for the family
ForwardingEnabled(fam) ==
    IF fam = 4
    THEN "net.ipv4.ip_forward=1" \in sys.sysctl
    ELSE \/ "net.ipv6.conf.default.forwarding=1" \in sys.sysctl
         \/ "net.ipv6.conf.all.forwarding=1" \in sys.sysctl

\* the filter FORWARD chain of the family ends with its default deny
ForwardRulesComplete(fam) ==
    LET c == ChainOf(fam, "filter", "FORWARD")
    IN  Len(c) > 0 /\ IsUnconditionalDrop(c[Len(c)])

\* C23 as claimed: in every state of a run, failed ones included, forwarding enabled
\* for a family implies that the FORWARD filter rules of that family are installed
\* up to and including the default deny.
C23_ForwardingOnlyBehindFirewall ==
    \A fam \in Families : ForwardingEnabled(fam) => ForwardRulesComplete(fam)

OwnAddress(fam) ==
    IF fam = 4 THEN self.own_ip_in_client_subnet_ipv4 ELSE self.own_ip_in_client_subnet_ipv6

RangeStart(fam) ==
    IF fam = 4 THEN self.client_ip_range_start_ipv4 ELSE self.client_ip_range_start_ipv6

RangeEnd(fam) ==
    IF fam = 4 THEN self.client_ip_range_end_ipv4 ELSE self.client_ip_range_end_ipv6

LoopbackNet(fam) == IF fam = 4 THEN LOOPBACK_V4 ELSE LOOPBACK_V6

\* the networks the rules of a family name as source or destination, loopback aside
MatchedSubnets(fam) ==
    UNION { { OptionValue(tables[fam][c][i].args, o, LoopbackNet(fam)) :
                i \in 1..Len(tables[fam][c]), o \in {"-s", "-d"} } :
            c \in DOMAIN tables[fam] }
      \ { LoopbackNet(fam) }

\* C24: in both families, once the addresses are computed, the server address lies in
\* the configured client subnet and so does every address from the start to the end of
\* the client range (the range lies between the subnet's first and last address); and
\* after configure completes, the configured subnet is the one network that the
\* filter, mangle and nat rules name as source or destination (loopback aside), so
\* the rules cover every address a client can get.
C24_RangeInsideMatchedSubnet ==
    \A fam \in Families :
        /\ OwnAddress(fam) # NoAddr => InNetwork(OwnAddress(fam), ClientSubnet(fam))
        /\ (RangeStart(fam) # NoAddr /\ RangeEnd(fam) # NoAddr) =>
              /\ AddrLe(NetFirst(ClientSubnet(fam)), RangeStart(fam))
              /\ AddrLe(RangeEnd(fam), NetLast(ClientSubnet(fam)))
              /\ InNetwork(RangeStart(fam), ClientSubnet(fam))
              /\ InNetwork(RangeEnd(fam), ClientSubnet(fam))
        /\ phase = "done" => MatchedSubnets(fam) = { ClientSubnet(fam) }

\* a completed run with an IPv6 subnet smaller than a /96, which is used as it is:
\* the range ends at the last address of the subnet the rules name
C24_Witness ==
    /\ phase = "done"
    /\ MatchedSubnets(6) = { self.client_subnet_ipv6 }
    /\ self.client_subnet_ipv6.prefixlen > MAX_PREFIX_BITS
    /\ RangeEnd(6) = NetLast(self.client_subnet_ipv6)

\* the call that adds the inter-client DROP rule of a family to FORWARD
InterClientCall(s, fam) ==
    [op |-> "iptables_add", fam |-> fam, chain |-> "FORWARD", target |-> "DROP",
     args |-> IF fam = 4 THEN << "-s", s.client_subnet_ipv4, "-d", s.client_subnet_ipv4 >>
                         ELSE << "-s", s.client_subnet_ipv6, "-d", s.client_subnet_ipv6 >>,
     comment |-> ""]

\* the call that adds the internet-to-client ACCEPT rule of a family to FORWARD
FromInternetCall(s, fam) ==
    [op |-> "iptables_add", fam |-> fam, chain |-> "FORWARD", target |-> "ACCEPT",
     args |-> << "-d", IF fam = 4 THEN s.client_subnet_ipv4 ELSE s.client_subnet_ipv6,
                 "-m", "conntrack", "--ctstate", "NEW" >>,
     comment |-> ""]

\* the sequence without the calls in the set, the order of the others kept
Without(calls, removed) ==
    LET Keep(c) == c \notin removed IN SelectSeq(calls, Keep)

\* how often the call occurs in the sequence
Occurrences(calls, c) == Cardinality({ i \in 1..Len(calls) : calls[i] = c })

\* with is without plus exactly one occurrence of each call of the set, in place
DiffersExactlyBy(with, without, own) ==
    /\ \A c \in own : Occurrences(with, c) = 1 /\ Occurrences(without, c) = 0
    /\ Without(with, own) = without
    /\ Len(with) = Len(without) + Cardinality(own)

\* C25: for the settings of every run that passed prepare(), the calls configure()
\* makes with allowInterClientCommunication false are those it makes with the flag
\* true plus exactly the two inter-client FORWARD DROP rules (one per family), and the
\* calls it makes with protectClientsFromInternet false are those it makes with the
\* flag true plus exactly the two internet-to-client FORWARD ACCEPT rules; every other
\* call, and the order of all other calls, is the same.
C25_FlagsChangeOnlyTheirRules ==
    (Prepared /\ phase \in {"done", "failed"}) =>
        /\ DiffersExactlyBy(ConfigureCalls([self EXCEPT !.allow_interclient_communication = FALSE]),
                            ConfigureCalls([self EXCEPT !.allow_interclient_communication = TRUE]),
                            { InterClientCall(self, fam) : fam \in Families })
        /\ DiffersExactlyBy(ConfigureCalls([self EXCEPT !.protect_clients_from_internet = FALSE]),
                            ConfigureCalls([self EXCEPT !.protect_clients_from_internet = TRUE]),
                            { FromInternetCall(self, fam) : fam \in Families })

\* a completed run with both flags false: its tables hold the four rules, which the
\* runs with the flags true do not make
C25_Witness ==
    /\ phase = "done"
    /\ ~self.allow_interclient_communication
    /\ ~self.protect_clients_from_internet
    /\ \A fam \in Families :
         /\ \E i \in 1..Len(ChainOf(fam, "filter", "FORWARD")) :
               ChainOf(fam, "filter", "FORWARD")[i] = AddedRule(InterClientCall(self, fam))
         /\ \E i \in 1..Len(ChainOf(fam, "filter", "FORWARD")) :
               ChainOf(fam, "filter", "FORWARD")[i] = AddedRule(FromInternetCall(self, fam))
         /\ \A i \in 1..Len(FirewallCalls([self EXCEPT !.allow_interclient_communication = TRUE,
                                                       !.protect_clients_from_internet = TRUE])) :
               FirewallCalls([self EXCEPT !.allow_interclient_communication = TRUE,
                                          !.protect_clients_from_internet = TRUE])[i]
                 \notin { InterClientCall(self, fam), FromInternetCall(self, fam) }

\* the values configure() writes with sysctl -w
SysctlWrites ==
    { NetworkCalls(self)[i].argv[3] :
        i \in { k \in 1..Len(NetworkCalls(self)) : NetworkCalls(self)[k].argv[1] = "sysctl" } }

\* in a run that found /proc/sys read-only: it is read-only only before configure()
\* has remounted it and written anything, or after the remount at the end, with every
\* sysctl value written and configure() about to return
ReadOnlyOnlyAroundTheWrites ==
    (env.proc_sys = "ro" /\ sys.proc_sys = "ro") =>
        \/ ~sys.remounted_rw /\ sys.sysctl = {}
        \/ /\ sys.remounted_rw
           /\ phase \in {"configuring", "done"}
           /\ step = Len(ConfigureCalls(self))
           /\ sys.sysctl = SysctlWrites

\* C26 as claimed: whenever configure() has remounted /proc/sys read-write and has
\* ended, by completing or by the exception of a failing command, /proc/sys is
\* read-only again; and the read-only remount comes after the last sysctl write.
C26_ReadOnlyAgainWheneverEnded ==
    /\ (sys.remounted_rw /\ phase \in {"done", "failed"}) => sys.proc_sys = "ro"
    /\ ReadOnlyOnlyAroundTheWrites

\* C26, amended: whenever configure() has remounted /proc/sys read-write and has
\* completed normally, /proc/sys is read-only again, and the read-only remount comes
\* after the last sysctl write; when configure() is ended by the exception of a failing
\* command after the remount, /proc/sys stays read-write.
C26_ReadOnlyAgainAfterCompletion ==
    /\ (sys.remounted_rw /\ phase = "done") => sys.proc_sys = "ro"
    /\ (sys.remounted_rw /\ phase = "failed") => sys.proc_sys = "rw"
    /\ ReadOnlyOnlyAroundTheWrites

\* a completed run that found /proc/sys read-only, wrote the forwarding settings and
\* left /proc/sys read-only
C26_Witness ==
    /\ phase = "done"
    /\ env.proc_sys = "ro"
    /\ sys.remounted_rw
    /\ sys.proc_sys = "ro"
    /\ "net.ipv4.ip_forward=1" \in sys.sysctl
    /\ sys.sysctl = SysctlWrites

\* the chains of a family that are not built in
UserChains(fam) == DOMAIN tables[fam] \ BuiltinChains

\* the ICMP types a chain accepts
AcceptedTypes(fam, chain) ==
    { OptionValue(chain[i].args, IF fam = 4 THEN "--icmp-type" ELSE "--icmpv6-type", "-") :
        i \in { k \in 1..Len(chain) : chain[k].target = "ACCEPT" } }

\* the rule jumps to a chain of its own table
IsJump(rule) == rule.target \notin BuiltinTargets

\* C27: in every state of a run, failed ones included: the rule call configure() is
\* about to make names a chain that exists (a sub-chain is created before a rule is
\* appended to it, and never twice); and every rule of INPUT or FORWARD that jumps
\* to a sub-chain jumps to AllowICMP_I or AllowICMP_F, which then exists, holds
\* its whole allow-list and ends with its unconditional DROP.
C27_JumpOnlyToCompleteSubChain ==
    /\ (Running /\ Current.op = "iptables_add") =>
          /\ AddedChain(Current) \in DOMAIN tables[Current.fam]
          /\ TargetExists(tables[Current.fam], AddedChain(Current)[1], Current.target)
    /\ (Running /\ Current.op = "iptables_run" /\ RunIsNewChain(Current)) =>
          RunChain(Current) \notin DOMAIN tables[Current.fam]
    /\ \A fam \in Families : \A chain \in BuiltinChains :
          \A i \in 1..Len(tables[fam][chain]) :
              LET rule == tables[fam][chain][i]
              IN  IsJump(rule) =>
                    /\ chain \in { << "filter", c >> : c \in FilterChains }
                    /\ rule.target = IcmpChain(chain[2])
                    /\ << "filter", rule.target >> \in UserChains(fam)
                    /\ LET sub == tables[fam][<< "filter", rule.target >>]
                       IN  /\ Len(sub) > 0
                           /\ IsUnconditionalDrop(sub[Len(sub)])
                           /\ \A k \in 1..(Len(sub) - 1) : sub[k].target = "ACCEPT"
                           /\ AcceptedTypes(fam, sub) = IcmpAllowed(fam, chain[2])

\* a run that failed after AllowICMP_F of IPv4 was created and before FORWARD jumps
\* to it: the chain exists, is not complete, and no rule jumps to it
C27_Witness ==
    /\ phase = "failed"
    /\ << "filter", "AllowICMP_F" >> \in UserChains(4)
    /\ Len(tables[4][<< "filter", "AllowICMP_F" >>]) > 0
    /\ ~IsUnconditionalDrop(tables[4][<< "filter", "AllowICMP_F" >>][Len(tables[4][<< "filter", "AllowICMP_F" >>])])
    /\ \A i \in 1..Len(ChainOf(4, "filter", "FORWARD")) : ~IsJump(ChainOf(4, "filter", "FORWARD")[i])
    /\ \E i \in 1..Len(ChainOf(4, "filter", "INPUT")) : IsJump(ChainOf(4, "filter", "INPUT")[i])

====
